---- MODULE Spec2Model ----
(***************************************************************************)
(* Model of the Hafele local MQTT integration                              *)
(* (custom_components/hafele_local_mqtt): the per-device status            *)
(* coordinator (status handler, status poll), the light entity's commands  *)
(* and deferred confirmation task, and the rotational polling loop.        *)
(*                                                                         *)
(* Lightness is the gateway's 0..1 fraction; the model keeps it in         *)
(* hundredths (0..100), which is the resolution the commands write.        *)
(***************************************************************************)
EXTENDS Integers, Sequences, FiniteSets, TLC

\* ------------------------------------------------------------------ bounds
\* wait-loop iterations of one poll before it times out
TimeoutTicks == 2
\* deferred confirmation tasks that may be pending at once
MaxTasks == 2
\* outer iterations of the rotational loop that the model follows
MaxIterations == 5
\* device entities known to the rotational loop
MaxEntities == 3
\* _create_entities_for_devices tasks running at the same time
MaxRuns == 2
MaxEntryEntities == 2
\* setups of the entry, each with its start listener and its loop
MaxLoops == 2
\* device addresses in discovery messages
MaxAddr == 2
\* different descriptors an address is announced with
MaxDescriptors == 2
\* entries of one discovery list
MaxListLen == 2

\* -------------------------------------------------------- program constants
MaxBrightness == 255
MinKelvin == 2700
MaxKelvin == 5000
PollPriorityNORMAL == 5
PollPriorityHIGH == 1

POLLING_MODE_NORMAL == "normal"
POLLING_MODE_ROTATIONAL == "rotational"

\* ------------------------------------------------------------ Python values
\* A Python value as the coordinator sees it: t is its type, d its items
\* when it is a dict.
EmptyDict == [k \in {} |-> 0]

Dict(d) == [t |-> "dict", d |-> d]
PyNone == [t |-> "none", d |-> EmptyDict]
\* a non-empty JSON array that does not contain the string "lightness"
PyList == [t |-> "list", d |-> EmptyDict]
\* a non-zero JSON number
PyNum == [t |-> "num", d |-> EmptyDict]

IsDict(v) == v.t = "dict"

\* bool(v): None and the empty dict are falsy
Truthy(v) ==
    CASE v.t = "dict" -> DOMAIN v.d # {}
      [] v.t = "none" -> FALSE
      [] OTHER -> TRUE

\* faulty variant: keys that a already has keep their value
DictUpdateKeepsOld(a, b) ==
    [k \in (DOMAIN a) \cup (DOMAIN b) |-> IF k \in DOMAIN a THEN a[k] ELSE b[k]]

\* dict.update: keys of b overwrite, other keys of a stay
DictUpdate(a, b) ==
    [k \in (DOMAIN a) \cup (DOMAIN b) |-> IF k \in DOMAIN b THEN b[k] ELSE a[k]]

\* ------------------------------------------------------------ status inputs
\* Raw strings handed to the status handler and what json.loads makes of
\* them ("error" is json.JSONDecodeError).
RawTexts == {"{\"lightness\": 0.5}", "{\"onoff\": 0}", "{bad", ""}

JsonError == [t |-> "error", d |-> EmptyDict]

JsonLoads(text) ==
    CASE text = "{\"lightness\": 0.5}" -> Dict([lightness |-> 50])
      [] text = "{\"onoff\": 0}" -> Dict([onoff |-> 0])
      [] OTHER -> JsonError

\* Pre-decoded payloads (the transport already parsed the JSON).
DecodedPayloads ==
    { Dict([lightness |-> 0]),
      Dict([lightness |-> 50]),
      Dict([onoff |-> 1]),
      Dict([onoff |-> 0]),
      Dict([lightness |-> 0, onoff |-> 1]),
      Dict([lightness |-> 50, onoff |-> 0]),
      Dict([temperature |-> 3000]),
      Dict([lightness |-> 50, temperature |-> 3000]),
      PyList, PyNum, PyNone }

Str(text) == [t |-> "str", d |-> EmptyDict, text |-> text]

StatusPayloads ==
    { [t |-> p.t, d |-> p.d, text |-> ""] : p \in DecodedPayloads }
        \cup { Str(x) : x \in RawTexts }

\* ---------------------------------------------------------------- variables
VARIABLES
    kind,             \* "mono" | "multiwhite" | "group": what the coordinator polls
    polling_mode,     \* coordinator.polling_mode
    status_data,      \* coordinator._status_data
    status_received,  \* coordinator._status_received
    data,             \* coordinator.data when it is an object of its own
    data_is_status,   \* coordinator.data is the very object _status_data
    poll_pc,          \* position of _async_update_data
    old_data,         \* its local old_data
    elapsed,          \* its local elapsed, in 100 ms ticks
    poll_pubs,        \* requests published by the current or last poll
    cmd_pc,           \* position of async_turn_on / async_turn_off
    cmd_brightness,   \* the brightness the command was called with (-1: none)
    cmd_light,        \* the command's lightness value (hundredths, -1: none)
    cmd_pubs,         \* messages published by the current or last command
    last_known_lightness, \* entity._last_known_lightness (-1: None)
    attr_color_temp,  \* entity._attr_color_temp (-1: None)
    priority,         \* entity._priority, per device address
    fmu_sleep1,       \* force_manual_update tasks in their first sleep
    fmu_sleep2,       \* force_manual_update tasks in their second sleep
    fmu_pubs,         \* requests published by the latest step of a force_manual_update
    req_snapshot,     \* _status_data as it was when the poll began (history)
    opt_pending,      \* fields a command wrote while the poll's request was unanswered (history)
    coordinators,     \* addresses in the coordinators dict, in insertion order
    loop_pc,          \* position of _rotational_polling_loop
    high_priority_entities, \* its list of that name
    normal_entities,  \* its list of that name
    hi,               \* position of "for entity in high_priority_entities"
    rr_index,         \* its round-robin index
    iteration,        \* outer iterations begun so far (history)
    high_at_partition,\* entities that read HIGH when the iteration began (history)
    polled,           \* entities polled so far in this iteration (history)
    normal_log,       \* NORMAL-slot polls since the last priority or entity change (history)
    failed_high,      \* entities whose HIGH poll raised, not yet polled again (history)
    settled,          \* the loop has partitioned since the last priority or entity change (history)
    devices,          \* discovery.devices: the discovered device addresses
    created_entities, \* created_entities of the light platform's setup
    made,             \* entities (each with its reconciler) constructed per address (history)
    added_entities,   \* addresses of the entities handed to async_add_entities (history)
    runs,             \* the running _create_entities_for_devices tasks
    entry_state,      \* where the config entry is: "new" ... "loaded", "unloaded"
    use_ha_mqtt,      \* mqtt_client._use_ha_mqtt
    discovery_started,\* discovery.async_start has run
    session_stored,   \* hass.data[DOMAIN] holds the entry's session data
    forwarded,        \* the platforms' setup has been forwarded
    subs,             \* handlers the broker side still delivers messages to
    ha_started,       \* the platform has fired EVENT_HOMEASSISTANT_STARTED
    setup_no,         \* which setup of the entry made the present platform objects
    stale_with_entities, \* earlier setups whose coordinators dict holds entities
    start_listeners,  \* setups whose _start_rotational_polling listener waits for it
    loop_tasks,       \* setups whose _rotational_polling_loop task exists
    loops_polling,    \* those whose loop awaits a refresh, where loops are told apart
    ramp_tasks,       \* a group's _request_*_after_ramp tasks in their sleep
    ramp_pubs,        \* requests published by the latest of these tasks
    status,           \* is_on's local status: coordinator.data as it reads it
    directory,        \* discovery.devices: address -> descriptor
    groups,           \* discovery.groups: group_main_addr -> descriptor
    scenes,           \* discovery.scenes: scene_id -> descriptor
    extra_turn,       \* the configured timeout is one whose wait loop takes a turn more
    last              \* the step just taken and its outcome (history)

recVars == <<kind, polling_mode, status_data, status_received, data,
             data_is_status, poll_pc, old_data, elapsed, poll_pubs, cmd_pc,
             cmd_brightness, cmd_light, cmd_pubs, last_known_lightness,
             attr_color_temp, fmu_sleep1, fmu_sleep2, fmu_pubs, req_snapshot,
             opt_pending>>

rotVars == <<coordinators, loop_pc, high_priority_entities, normal_entities,
             hi, rr_index, iteration, high_at_partition, polled, normal_log,
             failed_high, settled>>

setupVars == <<devices, created_entities, made, added_entities, runs>>

entryVars == <<entry_state, use_ha_mqtt, discovery_started, session_stored,
               forwarded, subs, ha_started, start_listeners, loop_tasks,
               loops_polling, setup_no, stale_with_entities>>

groupVars == <<ramp_tasks, ramp_pubs>>

accVars == <<status>>

cfgVars == <<extra_turn>>

discVars == <<directory, groups, scenes>>

\* the one device address the reconciler specification follows
Dev == 1

\* coordinator.data, whichever object it is
CoordData == IF data_is_status THEN status_data ELSE data

NoPayload == [t |-> "none", d |-> EmptyDict, text |-> ""]
Step(op, ok, val) == [op |-> op, ok |-> ok, val |-> val, p |-> NoPayload]
StatusStep(p, ok) == [op |-> "status", ok |-> ok, val |-> 0, p |-> p]

\* ------------------------------------------------------- the status handler
\* light.py: "lightness" in data raises TypeError for a number or None; a
\* list is searched for the element, a dict for the key.
HasLightness(v) ==
    CASE v.t = "dict" -> "lightness" \in DOMAIN v.d
      [] v.t = "list" -> FALSE
      [] OTHER -> FALSE

RaisesTypeError(v) == v.t \in {"num", "none"}

\* faulty variant: an onoff the payload states itself wins over the derived one
DeriveOnOffKeepsExplicit(d) ==
    DictUpdate([onoff |-> IF d["lightness"] > 0 THEN 1 ELSE 0], d)

\* light.py 140-145: onoff derived from lightness, written into the payload
DeriveOnOff(d) ==
    DictUpdate(d, [onoff |-> IF d["lightness"] > 0 THEN 1 ELSE 0])

\* the payload after decoding: a value, or JsonError
Decoded(p) == IF p.t = "str" THEN JsonLoads(p.text) ELSE [t |-> p.t, d |-> p.d]

\* faulty variant: a payload that does not decode is taken as an empty object
HandlerDataLenient(k, p) ==
    LET v == Decoded(p) IN
    IF v.t = "error" \/ (k # "group" /\ RaisesTypeError(v)) THEN Dict(EmptyDict)
    ELSE IF k # "group" /\ HasLightness(v) THEN Dict(DeriveOnOff(v.d))
    ELSE v

\* light.py 135-145 / group.py 107-111: the data the handler goes on with,
\* or JsonError when the try block raised
HandlerData(k, p) ==
    LET v == Decoded(p) IN
    IF v.t = "error" THEN JsonError
    ELSE IF k = "group" THEN v
    ELSE IF RaisesTypeError(v) THEN JsonError
    ELSE IF HasLightness(v) THEN Dict(DeriveOnOff(v.d))
    ELSE v

\* faulty variant: the decoded payload replaces the snapshot
MergeStatusReplaces(cur, new) == new

\* light.py 151-158 / group.py 114-119: merge into, or replace, the snapshot
MergeStatus(cur, new) ==
    IF IsDict(new) /\ IsDict(cur) THEN Dict(DictUpdate(cur.d, new.d)) ELSE new

Accepted(k, p) == HandlerData(k, p).t # "error"

\* _on_status_message
OnStatusMessage(p) ==
    /\ IF Accepted(kind, p)
       THEN /\ status_data' = MergeStatus(status_data, HandlerData(kind, p))
            /\ status_received' = TRUE
            \* async_set_updated_data(merged_data)
            /\ data_is_status' = TRUE
            /\ data' = PyNone
       ELSE UNCHANGED <<status_data, status_received, data_is_status, data>>
    /\ last' = StatusStep(p, Accepted(kind, p))
    /\ UNCHANGED <<kind, polling_mode, poll_pc, old_data, elapsed, poll_pubs,
                   cmd_pc, cmd_brightness, cmd_light, cmd_pubs,
                   last_known_lightness, attr_color_temp, priority,
                   fmu_sleep1, fmu_sleep2, fmu_pubs, req_snapshot, opt_pending>>
    /\ UNCHANGED <<rotVars, setupVars, entryVars, groupVars, accVars, cfgVars, discVars>>

\* ------------------------------------------------------------ the status poll
Msg(topic, bool, d) == [topic |-> topic, bool |-> bool, d |-> d]

\* faulty variant: a device poll asks for the power as well
RequestTopicsPowerToo(k) ==
    CASE k = "group" -> <<"powerGet", "lightnessGet">>
      [] k = "multiwhite" -> <<"powerGet", "ctlGet">>
      [] OTHER -> <<"powerGet", "lightnessGet">>

\* the request topics of one poll, in publishing order
RequestTopics(k) ==
    CASE k = "group" -> <<"powerGet", "lightnessGet">>
      [] k = "multiwhite" -> <<"ctlGet">>
      [] OTHER -> <<"lightnessGet">>

\* old_data = self._status_data.copy() if isinstance(..., dict) else {}
CopyOrEmpty(v) == IF IsDict(v) THEN Dict(v.d) ELSE Dict(EmptyDict)

\* return old_data if old_data else {}
TimeoutResult(old) == IF Truthy(old) THEN old ELSE Dict(EmptyDict)

\* _async_update_data up to the first publish: reset the flag, keep a copy
PollBegin ==
    /\ poll_pc = "idle"
    /\ status_received' = FALSE
    /\ old_data' = CopyOrEmpty(status_data)
    /\ req_snapshot' = status_data
    /\ opt_pending' = EmptyDict
    /\ elapsed' = 0
    /\ poll_pubs' = <<>>
    /\ poll_pc' = "publish"
    /\ last' = Step("poll_begin", TRUE, 0)
    /\ UNCHANGED <<kind, polling_mode, status_data, data, data_is_status,
                   cmd_pc, cmd_brightness, cmd_light, cmd_pubs, last_known_lightness,
                   attr_color_temp, priority, fmu_sleep1, fmu_sleep2, fmu_pubs>>
    /\ UNCHANGED <<rotVars, setupVars, entryVars, groupVars, accVars, cfgVars, discVars>>

\* await self.mqtt_client.async_publish(get_..._topic, {}, qos=1) returned
PollPublish ==
    /\ poll_pc = "publish"
    /\ poll_pubs' = Append(poll_pubs,
            Msg(RequestTopics(kind)[Len(poll_pubs) + 1], "-", EmptyDict))
    /\ poll_pc' = IF Len(poll_pubs') = Len(RequestTopics(kind))
                  THEN "wait" ELSE "publish"
    /\ last' = Step("poll_publish", TRUE, 0)
    /\ UNCHANGED <<kind, polling_mode, status_data, status_received, data,
                   data_is_status, old_data, elapsed, cmd_pc,
                   cmd_brightness, cmd_light, cmd_pubs, last_known_lightness, attr_color_temp,
                   priority, fmu_sleep1, fmu_sleep2, fmu_pubs, req_snapshot, opt_pending>>
    /\ UNCHANGED <<rotVars, setupVars, entryVars, groupVars, accVars, cfgVars, discVars>>

\* the locals of _async_update_data are gone once it has returned or raised
PollLocalsGone ==
    /\ old_data' = Dict(EmptyDict)
    /\ elapsed' = 0
    /\ req_snapshot' = Dict(EmptyDict)
    /\ opt_pending' = EmptyDict

\* the publish raised a transport error: the poll raises to its caller
PollPublishFails ==
    /\ poll_pc = "publish"
    /\ poll_pc' = "idle"
    /\ PollLocalsGone
    /\ last' = Step("poll_raise", FALSE, 0)
    /\ UNCHANGED <<kind, polling_mode, status_data, status_received, data,
                   data_is_status, poll_pubs, cmd_pc, cmd_brightness, cmd_light, cmd_pubs,
                   last_known_lightness, attr_color_temp, priority,
                   fmu_sleep1, fmu_sleep2, fmu_pubs>>
    /\ UNCHANGED <<rotVars, setupVars, entryVars, groupVars, accVars, cfgVars, discVars>>

\* light.py 205-209: elapsed is a float that grows by 0.1 a turn, and the sum
\* of timeout / 0.1 such steps may fall short of the timeout (fifty of them
\* give 4.999999999999998 for the default of 5 seconds): the loop then takes
\* one turn more
WaitTurns == TimeoutTicks + (IF extra_turn THEN 1 ELSE 0)

\* one turn of: while not received and elapsed < timeout: sleep(0.1)
PollTick ==
    /\ poll_pc = "wait"
    /\ ~status_received
    /\ elapsed < WaitTurns
    /\ elapsed' = elapsed + 1
    /\ last' = Step("poll_tick", TRUE, 0)
    /\ UNCHANGED <<kind, polling_mode, status_data, status_received, data,
                   data_is_status, poll_pc, old_data, poll_pubs, cmd_pc, cmd_brightness, cmd_light, cmd_pubs, last_known_lightness,
                   attr_color_temp, priority, fmu_sleep1, fmu_sleep2, fmu_pubs,
                   req_snapshot, opt_pending>>
    /\ UNCHANGED <<rotVars, setupVars, entryVars, groupVars, accVars, cfgVars, discVars>>

\* the loop is left: the poll returns and the coordinator stores the result
\* in coordinator.data
PollReturn ==
    /\ poll_pc = "wait"
    /\ status_received \/ elapsed >= WaitTurns
    /\ IF ~status_received
       THEN /\ data' = TimeoutResult(old_data)
            /\ data_is_status' = FALSE
       ELSE IF IsDict(status_data)
       THEN /\ data' = PyNone
            /\ data_is_status' = TRUE
       ELSE /\ data' = Dict(EmptyDict)
            /\ data_is_status' = FALSE
    /\ poll_pc' = "idle"
    /\ PollLocalsGone
    /\ last' = Step("poll_return", status_received, 0)
    /\ UNCHANGED <<kind, polling_mode, status_data, status_received,
                   poll_pubs, cmd_pc, cmd_brightness, cmd_light, cmd_pubs,
                   last_known_lightness, attr_color_temp, priority,
                   fmu_sleep1, fmu_sleep2, fmu_pubs>>
    /\ UNCHANGED <<rotVars, setupVars, entryVars, groupVars, accVars, cfgVars, discVars>>

\* ------------------------------------------------------ the entity's commands
\* requested brightness values (-1: no brightness given)
BrightnessInputs == {0, 128, MaxBrightness}
\* requested colour temperatures (-1: none given)
KelvinInputs == {2000, 3500}

\* faulty variant: rounds to the nearest hundredth
RoundLightness(b) == (b * 100 + (MaxBrightness \div 2)) \div MaxBrightness

\* math.ceil((brightness / 255.0) * 100) / 100.0, in hundredths.  For every
\* brightness in 0..255 the float expression gives this exact ceiling.
CeilLightness(b) == (b * 100 + (MaxBrightness - 1)) \div MaxBrightness

\* math.ceil(lightness_value * 100) / 100.0 on a remembered lightness: the
\* float product is just above the integer for these hundredths
CeilCarries == {7, 14, 28, 55, 56}
ReplayLightness(l) == IF l \in CeilCarries THEN l + 1 ELSE l

\* min(max(temp_kelvin, 2700), 5000)
ClampKelvin(t) ==
    IF t < MinKelvin THEN MinKelvin ELSE IF t > MaxKelvin THEN MaxKelvin ELSE t

\* int(lightness_float * 255), lightness in hundredths
ToBrightness(l) == (l * MaxBrightness) \div 100

\* HafeleLightEntity.brightness: -1 is None
brightness(v, lkl) ==
    IF ~Truthy(v) THEN -1
    ELSE IF IsDict(v) /\ "lightness" \in DOMAIN v.d
    THEN ToBrightness(v.d["lightness"])
    ELSE IF lkl # -1 THEN ToBrightness(lkl)
    ELSE -1

\* the property stores the lightness it has just read
ReadBrightness ==
    /\ last_known_lightness' =
            IF Truthy(CoordData) /\ IsDict(CoordData)
               /\ "lightness" \in DOMAIN CoordData.d
            THEN CoordData.d["lightness"]
            ELSE last_known_lightness
    /\ last' = Step("brightness", TRUE,
                    brightness(CoordData, last_known_lightness))
    /\ UNCHANGED <<kind, polling_mode, status_data, status_received, data,
                   data_is_status, poll_pc, old_data, elapsed, poll_pubs,
                   cmd_pc, cmd_brightness, cmd_light, cmd_pubs, attr_color_temp,
                   priority, fmu_sleep1, fmu_sleep2, fmu_pubs, req_snapshot, opt_pending>>
    /\ UNCHANGED <<rotVars, setupVars, entryVars, groupVars, accVars, cfgVars, discVars>>

\* light.py 674 reads self._attr_color_temp, which HafeleLightEntity never
\* assigns before: the read gives None where the platform's LightEntity
\* declares the attribute and raises AttributeError where it does not (the
\* LightEntity of src/conftest.py declares none)
ReadsUnsetColorTemp(k, t, temp) == k = "multiwhite" /\ t = -1 /\ temp = -1

\* async_turn_on up to its first publish
TurnOnBegin(b, t) ==
    /\ cmd_pc = "idle"
    /\ kind # "group"
    /\ fmu_sleep1 + fmu_sleep2 < MaxTasks
    /\ last_known_lightness' =
          IF b # -1 THEN CeilLightness(b) ELSE last_known_lightness
    /\ cmd_pubs' = <<>>
    /\ \E declared \in BOOLEAN :
         IF ReadsUnsetColorTemp(kind, t, attr_color_temp) /\ ~declared
         THEN /\ last' = Step("on_raise", FALSE, b)
              /\ UNCHANGED <<cmd_pc, cmd_light, cmd_brightness,
                             attr_color_temp>>
         ELSE /\ cmd_brightness' = b
              /\ last' = Step("turn_on", TRUE, b)
              /\ IF kind = "multiwhite"
                 THEN /\ cmd_light' =
                            IF b # -1 THEN CeilLightness(b)
                            ELSE IF last_known_lightness \notin {-1, 0}
                            THEN last_known_lightness ELSE 100
                      /\ attr_color_temp' =
                            IF t # -1 THEN ClampKelvin(t)
                            ELSE IF attr_color_temp \notin {-1, 0}
                            THEN attr_color_temp ELSE MinKelvin
                      /\ cmd_pc' = "on_ctl"
                 ELSE /\ cmd_light' =
                            IF b # -1 THEN CeilLightness(b)
                            ELSE IF last_known_lightness # -1
                            THEN ReplayLightness(last_known_lightness) ELSE -1
                      /\ attr_color_temp' = attr_color_temp
                      /\ cmd_pc' = "on_power"
    /\ UNCHANGED <<kind, polling_mode, status_data, status_received, data,
                   data_is_status, poll_pc, old_data, elapsed, poll_pubs,
                   priority, fmu_sleep1, fmu_sleep2, fmu_pubs, req_snapshot, opt_pending>>
    /\ UNCHANGED <<rotVars, setupVars, entryVars, groupVars, accVars, cfgVars, discVars>>

\* async_turn_off up to its publish
TurnOffBegin ==
    /\ cmd_pc = "idle"
    /\ kind # "group"
    /\ fmu_sleep1 + fmu_sleep2 < MaxTasks
    /\ cmd_pc' = "off_power"
    /\ cmd_brightness' = -1
    /\ cmd_light' = -1
    /\ cmd_pubs' = <<>>
    /\ last' = Step("turn_off", TRUE, 0)
    /\ UNCHANGED <<kind, polling_mode, status_data, status_received, data,
                   data_is_status, poll_pc, old_data, elapsed, poll_pubs,
                   last_known_lightness, attr_color_temp, priority,
                   fmu_sleep1, fmu_sleep2, fmu_pubs, req_snapshot, opt_pending>>
    /\ UNCHANGED <<rotVars, setupVars, entryVars, groupVars, accVars, cfgVars, discVars>>

\* the message the command publishes at this position
CommandMessage(pc, l, temp) ==
    CASE pc = "on_power" -> Msg("power", "true", EmptyDict)
      [] pc = "on_lightness" -> Msg("lightness", "-", [lightness |-> l])
      [] pc = "on_ctl" ->
            Msg("ctl", "-", [lightness |-> l, temperature |-> temp])
      [] OTHER -> Msg("power", "false", EmptyDict)

\* the fields the command writes into coordinator.data once it has published
OptimisticFields(pc, l, temp) ==
    CASE pc = "on_power" -> [onoff |-> 1]
      [] pc = "on_lightness" -> [onoff |-> 1, lightness |-> l]
      [] pc = "on_ctl" -> [onoff |-> 1, lightness |-> l, temperature |-> temp]
      [] OTHER -> [onoff |-> 0]

\* the monochrome path publishes the lightness after the power command
MorePublishes(pc, l) == pc = "on_power" /\ l # -1

\* light.py 201-208: the poll has published its request and has seen no
\* status message since
RequestUnanswered ==
    poll_pc \in {"publish", "wait"} /\ poll_pubs # <<>> /\ ~status_received

\* a publish of the command returned; after the last one the command writes
\* its optimistic state and schedules force_manual_update, without awaiting
CommandPublish ==
    /\ cmd_pc \in {"on_power", "on_lightness", "on_ctl", "off_power"}
    /\ cmd_pubs' = Append(cmd_pubs,
                          CommandMessage(cmd_pc, cmd_light, attr_color_temp))
    /\ IF MorePublishes(cmd_pc, cmd_light)
       THEN /\ cmd_pc' = "on_lightness"
            /\ last' = Step("cmd_publish", TRUE, 0)
            /\ UNCHANGED <<status_data, data, data_is_status, fmu_sleep1,
                           cmd_brightness, cmd_light, opt_pending>>
       ELSE LET upd == OptimisticFields(cmd_pc, cmd_light, attr_color_temp) IN
            /\ cmd_pc' = "idle"
            /\ cmd_brightness' = -1
            /\ cmd_light' = -1
            /\ IF Truthy(CoordData) /\ ~IsDict(CoordData)
               \* coordinator.data.update on a list: AttributeError
               THEN /\ last' = Step("cmd_raise", FALSE, 1)
                    /\ UNCHANGED <<status_data, data, data_is_status,
                                   fmu_sleep1, opt_pending>>
               ELSE /\ IF ~Truthy(CoordData)
                       THEN /\ data' = Dict(upd)
                            /\ data_is_status' = FALSE
                            /\ status_data' = status_data
                       ELSE IF data_is_status
                       THEN /\ status_data' = Dict(DictUpdate(status_data.d, upd))
                            /\ UNCHANGED <<data, data_is_status>>
                       ELSE /\ data' = Dict(DictUpdate(data.d, upd))
                            /\ UNCHANGED <<status_data, data_is_status>>
                    /\ opt_pending' = IF RequestUnanswered
                                       THEN DictUpdate(opt_pending, upd)
                                       ELSE opt_pending
                    /\ fmu_sleep1' = fmu_sleep1 + 1
                    /\ last' = Step(IF cmd_pc = "off_power"
                                    THEN "off_done" ELSE "on_done",
                                    TRUE, cmd_brightness)
    /\ UNCHANGED <<kind, polling_mode, status_received, poll_pc, old_data,
                   elapsed, poll_pubs, last_known_lightness, attr_color_temp,
                   priority, fmu_sleep2, fmu_pubs, req_snapshot>>
    /\ UNCHANGED <<rotVars, setupVars, entryVars, groupVars, accVars, cfgVars, discVars>>

\* faulty variant: the confirmation is scheduled although the publish raised
CommandPublishFailsScheduled ==
    /\ cmd_pc \in {"on_power", "on_lightness", "on_ctl", "off_power"}
    /\ cmd_pc' = "idle"
    /\ cmd_brightness' = -1
    /\ cmd_light' = -1
    /\ fmu_sleep1' = fmu_sleep1 + 1
    /\ last' = Step("cmd_raise", FALSE, 0)
    /\ UNCHANGED <<kind, polling_mode, status_data, status_received, data,
                   data_is_status, poll_pc, old_data, elapsed, poll_pubs,
                   cmd_pubs, last_known_lightness,
                   attr_color_temp, priority, fmu_sleep2, fmu_pubs,
                   req_snapshot, opt_pending>>
    /\ UNCHANGED <<rotVars, setupVars, entryVars, groupVars, accVars, cfgVars, discVars>>

\* a publish of the command raised a transport error: the command raises
CommandPublishFails ==
    /\ cmd_pc \in {"on_power", "on_lightness", "on_ctl", "off_power"}
    /\ cmd_pc' = "idle"
    /\ cmd_brightness' = -1
    /\ cmd_light' = -1
    /\ last' = Step("cmd_raise", FALSE, 0)
    /\ UNCHANGED <<kind, polling_mode, status_data, status_received, data,
                   data_is_status, poll_pc, old_data, elapsed, poll_pubs,
                   cmd_pubs, last_known_lightness,
                   attr_color_temp, priority, fmu_sleep1, fmu_sleep2, fmu_pubs,
                   req_snapshot, opt_pending>>
    /\ UNCHANGED <<rotVars, setupVars, entryVars, groupVars, accVars, cfgVars, discVars>>

\* ------------------------------------------------------------ group commands
\* group.py async_turn_on up to its first publish
GroupTurnOnBegin(b) ==
    /\ cmd_pc = "idle"
    /\ kind = "group"
    /\ Len(ramp_tasks) < MaxTasks
    /\ cmd_pc' = "g_on_power"
    /\ cmd_brightness' = b
    /\ cmd_light' = IF b # -1 THEN CeilLightness(b) ELSE -1
    /\ cmd_pubs' = <<>>
    /\ last' = Step("turn_on", TRUE, b)
    /\ UNCHANGED <<kind, polling_mode, status_data, status_received, data,
                   data_is_status, poll_pc, old_data, elapsed, poll_pubs,
                   last_known_lightness, attr_color_temp, priority,
                   fmu_sleep1, fmu_sleep2, fmu_pubs, req_snapshot, opt_pending>>
    /\ UNCHANGED <<rotVars, setupVars, entryVars, groupVars, accVars, cfgVars, discVars>>

\* group.py async_turn_off up to its publish
GroupTurnOffBegin ==
    /\ cmd_pc = "idle"
    /\ kind = "group"
    /\ Len(ramp_tasks) < MaxTasks
    /\ cmd_pc' = "g_off_power"
    /\ cmd_brightness' = -1
    /\ cmd_light' = -1
    /\ cmd_pubs' = <<>>
    /\ last' = Step("turn_off", TRUE, 0)
    /\ UNCHANGED <<kind, polling_mode, status_data, status_received, data,
                   data_is_status, poll_pc, old_data, elapsed, poll_pubs,
                   last_known_lightness, attr_color_temp, priority,
                   fmu_sleep1, fmu_sleep2, fmu_pubs, req_snapshot, opt_pending>>
    /\ UNCHANGED <<rotVars, setupVars, entryVars, groupVars, accVars, cfgVars, discVars>>

\* the message the group command publishes at this position
GroupCommandMessage(pc, l) ==
    CASE pc = "g_on_power" -> Msg("groupPower", "true", EmptyDict)
      [] pc = "g_on_lightness" -> Msg("groupLightness", "-", [lightness |-> l])
      [] OTHER -> Msg("groupPower", "false", EmptyDict)

\* the fields the group command writes into coordinator.data
GroupOptimisticFields(pc, l) ==
    CASE pc = "g_on_power" -> [onoff |-> 1]
      [] pc = "g_on_lightness" -> [onoff |-> 1, lightness |-> l]
      [] OTHER -> [onoff |-> 0]

\* faulty variant: the lightness is published after every power-on
GroupMorePublishesAlways(pc, l) == pc = "g_on_power"

\* group.py 389-409: the lightness is published after the power command when
\* a brightness was given, and only then
GroupMorePublishes(pc, l) == pc = "g_on_power" /\ l # -1

\* the status requests of a _request_*_after_ramp task, in publishing order
RampTopics(task) ==
    CASE task = "g_on_lightness" -> <<"lightnessGet">>
      [] task = "g_on_power" -> <<"powerGet", "lightnessGet">>
      [] OTHER -> <<"powerGet">>

\* a publish of the group command returned; after the last one the command
\* writes its optimistic state and creates the task that asks for the status
\* once the ramp is over
GroupCommandPublish ==
    /\ cmd_pc \in {"g_on_power", "g_on_lightness", "g_off_power"}
    /\ cmd_pubs' = Append(cmd_pubs, GroupCommandMessage(cmd_pc, cmd_light))
    /\ IF GroupMorePublishes(cmd_pc, cmd_light)
       THEN /\ cmd_pc' = "g_on_lightness"
            /\ last' = Step("cmd_publish", TRUE, 0)
            /\ UNCHANGED <<status_data, data, data_is_status, ramp_tasks,
                           cmd_brightness, cmd_light, opt_pending>>
       ELSE LET upd == GroupOptimisticFields(cmd_pc, cmd_light) IN
            /\ cmd_pc' = "idle"
            /\ cmd_brightness' = -1
            /\ cmd_light' = -1
            /\ IF Truthy(CoordData) /\ ~IsDict(CoordData)
               \* coordinator.data.update on a list: AttributeError
               THEN /\ last' = Step("cmd_raise", FALSE, 1)
                    /\ UNCHANGED <<status_data, data, data_is_status,
                                   ramp_tasks, opt_pending>>
               ELSE /\ IF ~Truthy(CoordData)
                       THEN /\ data' = Dict(upd)
                            /\ data_is_status' = FALSE
                            /\ status_data' = status_data
                       ELSE IF data_is_status
                       THEN /\ status_data' = Dict(DictUpdate(status_data.d, upd))
                            /\ UNCHANGED <<data, data_is_status>>
                       ELSE /\ data' = Dict(DictUpdate(data.d, upd))
                            /\ UNCHANGED <<status_data, data_is_status>>
                    /\ opt_pending' = IF RequestUnanswered
                                       THEN DictUpdate(opt_pending, upd)
                                       ELSE opt_pending
                    /\ ramp_tasks' = Append(ramp_tasks, cmd_pc)
                    /\ last' = Step(IF cmd_pc = "g_off_power"
                                    THEN "off_done" ELSE "on_done",
                                    TRUE, cmd_brightness)
    /\ UNCHANGED <<kind, polling_mode, status_received, poll_pc, old_data,
                   elapsed, poll_pubs, last_known_lightness, attr_color_temp,
                   priority, fmu_sleep1, fmu_sleep2, fmu_pubs, req_snapshot,
                   ramp_pubs>>
    /\ UNCHANGED <<rotVars, setupVars, entryVars, accVars, cfgVars, discVars>>

\* a publish of the group command raised a transport error
GroupCommandPublishFails ==
    /\ cmd_pc \in {"g_on_power", "g_on_lightness", "g_off_power"}
    /\ cmd_pc' = "idle"
    /\ cmd_brightness' = -1
    /\ cmd_light' = -1
    /\ last' = Step("cmd_raise", FALSE, 0)
    /\ UNCHANGED <<kind, polling_mode, status_data, status_received, data,
                   data_is_status, poll_pc, old_data, elapsed, poll_pubs,
                   cmd_pubs, last_known_lightness,
                   attr_color_temp, priority, fmu_sleep1, fmu_sleep2, fmu_pubs,
                   req_snapshot, opt_pending>>
    /\ UNCHANGED <<rotVars, setupVars, entryVars, groupVars, accVars, cfgVars, discVars>>

\* the oldest _request_*_after_ramp task wakes after its five seconds and
\* publishes its requests; the first publish that raises ends the task
GroupRampRequest(accepted) ==
    /\ ramp_tasks # <<>>
    /\ accepted <= Len(RampTopics(Head(ramp_tasks)))
    /\ ramp_pubs' = [i \in 1..accepted |->
                        Msg(RampTopics(Head(ramp_tasks))[i], "-", EmptyDict)]
    /\ ramp_tasks' = Tail(ramp_tasks)
    /\ last' = Step("ramp_request",
                    accepted = Len(RampTopics(Head(ramp_tasks))), accepted)
    /\ UNCHANGED <<recVars, rotVars, setupVars, entryVars, accVars, cfgVars, discVars,
                   priority>>

\* ------------------------------------------------------- force_manual_update
\* faulty variant: the escalation is lost
set_high_priority_lost(p) == p

set_high_priority(p) == PollPriorityHIGH

\* faulty variant: the request is published in either polling mode
SettleSleepsAlways(mode) == TRUE

\* light.py 787: only normal polling goes on to sleep(4.0) and the request
SettleSleeps(mode) == mode = POLLING_MODE_NORMAL

\* asyncio.sleep(1.0) is over: escalate; normal mode goes on to sleep(4.0)
FmuEscalate ==
    /\ fmu_sleep1 > 0
    /\ priority' = [priority EXCEPT ![Dev] = set_high_priority(@)]
    /\ fmu_sleep1' = fmu_sleep1 - 1
    /\ fmu_sleep2' = IF SettleSleeps(polling_mode)
                     THEN fmu_sleep2 + 1 ELSE fmu_sleep2
    /\ fmu_pubs' = <<>>
    /\ last' = Step("fmu_escalate", TRUE, 0)
    /\ UNCHANGED <<kind, polling_mode, status_data, status_received, data,
                   data_is_status, poll_pc, old_data, elapsed, poll_pubs,
                   cmd_pc, cmd_brightness, cmd_light, cmd_pubs,
                   last_known_lightness, attr_color_temp, req_snapshot, opt_pending>>
    /\ UNCHANGED <<rotVars, setupVars, entryVars, groupVars, accVars, cfgVars, discVars>>

\* asyncio.sleep(4.0) is over: publish the status request (it may raise)
FmuRequest(ok) ==
    /\ fmu_sleep2 > 0
    /\ fmu_sleep2' = fmu_sleep2 - 1
    /\ fmu_pubs' = IF ok THEN <<Msg(RequestTopics(kind)[1], "-", EmptyDict)>>
                   ELSE <<>>
    /\ last' = Step("fmu_request", ok, 0)
    /\ UNCHANGED <<kind, polling_mode, status_data, status_received, data,
                   data_is_status, poll_pc, old_data, elapsed, poll_pubs,
                   cmd_pc, cmd_brightness, cmd_light, cmd_pubs,
                   last_known_lightness, attr_color_temp, priority,
                   fmu_sleep1, req_snapshot, opt_pending>>
    /\ UNCHANGED <<rotVars, setupVars, entryVars, groupVars, accVars, cfgVars, discVars>>

\* -------------------------------------------------- the rotational polling loop
\* faulty variant: the priority stays as it is after the poll
reset_priority_lost(p) == p

reset_priority(p) == PollPriorityNORMAL

\* light.py 391-398: the single pass that splits the entities by priority
HighEntities(coords, prio) ==
    SelectSeq(coords, LAMBDA e : prio[e] = PollPriorityHIGH)

NormalEntities(coords, prio) ==
    SelectSeq(coords, LAMBDA e : prio[e] # PollPriorityHIGH)

\* normal_entities[rr_index % len(normal_entities)] (sequences start at 1)
RoundRobinPick(normal, rr) == normal[(rr % Len(normal)) + 1]

\* faulty variant: the HIGH loop ends after its first entity
MoreHighFirstOnly(i, high) == i < 1 /\ i < Len(high)

\* "for entity in high_priority_entities" has another entity to poll
MoreHigh(i, high) == i < Len(high)

\* rr_index after a NORMAL-slot poll that returned
AdvanceCursor(rr) == rr + 1

Range(seq) == { seq[i] : i \in 1..Len(seq) }

\* history of the NORMAL-slot polls, cut when the premise of a rotation (fixed
\* entities, no priority change) is broken
Restart == <<>>

\* _create_entities_for_devices registers the coordinator of a new device;
\* its entity starts with PollPriority.NORMAL
AddEntity ==
    /\ Len(coordinators) < MaxEntities
    /\ coordinators' = Append(coordinators, Len(coordinators) + 1)
    /\ priority' = [priority EXCEPT ![Len(coordinators) + 1] = PollPriorityNORMAL]
    /\ normal_log' = Restart
    /\ settled' = FALSE
    /\ last' = Step("add_entity", TRUE, Len(coordinators) + 1)
    /\ UNCHANGED <<loop_pc, high_priority_entities, normal_entities, hi,
                   rr_index, iteration, high_at_partition, polled, failed_high>>
    /\ subs' = subs \cup {"status"}
    /\ UNCHANGED <<entry_state, use_ha_mqtt, discovery_started,
                   session_stored, forwarded, ha_started, start_listeners,
                   loop_tasks, loops_polling, setup_no,
                   stale_with_entities>>
    /\ UNCHANGED <<recVars, setupVars, groupVars, accVars, cfgVars, discVars>>

\* force_manual_update of entity e has slept its second: set_high_priority
Escalate(e) ==
    /\ e \in Range(coordinators)
    /\ priority' = [priority EXCEPT ![e] = set_high_priority(@)]
    /\ normal_log' = IF priority[e] = PollPriorityHIGH THEN normal_log ELSE Restart
    /\ settled' = (settled /\ priority[e] = PollPriorityHIGH)
    /\ last' = Step("escalate", TRUE, e)
    /\ UNCHANGED <<coordinators, loop_pc, high_priority_entities,
                   normal_entities, hi, rr_index, iteration, high_at_partition,
                   polled, failed_high>>
    /\ UNCHANGED <<recVars, setupVars, entryVars, groupVars, accVars, cfgVars, discVars>>

\* the entity whose refresh the loop is awaiting
Polling ==
    IF loop_pc = "high_poll" THEN high_priority_entities[hi]
    ELSE RoundRobinPick(normal_entities, rr_index)

\* light.py 387-402 (and the first refresh it starts): the top of "while True"
Partition ==
    /\ loop_pc = "top"
    /\ iteration < MaxIterations
    /\ LET high == HighEntities(coordinators, priority)
           normal == NormalEntities(coordinators, priority)
           log == IF settled THEN normal_log ELSE Restart IN
       /\ high_priority_entities' = high
       /\ normal_entities' = normal
       /\ high_at_partition' =
              { e \in Range(coordinators) : priority[e] = PollPriorityHIGH }
       /\ iteration' = iteration + 1
       /\ settled' = TRUE
       /\ failed_high' = [e \in 1..MaxEntities |->
                             IF failed_high[e] = 1 THEN 2 ELSE failed_high[e]]
       /\ IF high = <<>> /\ normal = <<>>
          THEN /\ loop_pc' = "empty_sleep"
               /\ hi' = 0
               /\ polled' = {}
               /\ normal_log' = log
               /\ last' = Step("no_entities", TRUE, 0)
          ELSE IF high # <<>>
          THEN /\ loop_pc' = "high_poll"
               /\ hi' = 1
               /\ polled' = {high[1]}
               /\ normal_log' = log
               /\ last' = Step("high_poll", TRUE, high[1])
          ELSE /\ loop_pc' = "normal_poll"
               /\ hi' = 0
               /\ polled' = {RoundRobinPick(normal, rr_index)}
               /\ normal_log' = Append(log, RoundRobinPick(normal, rr_index))
               /\ last' = Step("normal_poll", TRUE, RoundRobinPick(normal, rr_index))
    /\ UNCHANGED <<coordinators, rr_index, priority>>
    /\ UNCHANGED <<recVars, setupVars, entryVars, groupVars, accVars, cfgVars, discVars>>

\* light.py 399-402: the sleep of an iteration that found no entity is over
EmptySleepDone ==
    /\ loop_pc = "empty_sleep"
    /\ loop_pc' = "top"
    /\ last' = Step("sleep_done", TRUE, 0)
    /\ UNCHANGED <<coordinators, high_priority_entities, normal_entities, hi,
                   rr_index, iteration, high_at_partition, polled, normal_log,
                   failed_high, settled, priority>>
    /\ UNCHANGED <<recVars, setupVars, entryVars, groupVars, accVars, cfgVars, discVars>>

\* faulty variant: an exception of an entity's refresh ends the loop
AfterPollUncaught(pc, ok) ==
    IF ~ok THEN "stopped"
    ELSE IF pc = "high_poll" THEN "high_sleep" ELSE "normal_sleep"

\* light.py 413-418, 430-435: the refresh returned, or its exception was
\* caught and logged; either way the loop sleeps polling_interval next
AfterPoll(pc, ok) == IF pc = "high_poll" THEN "high_sleep" ELSE "normal_sleep"

\* light.py 411-417: the refresh of a HIGH entity returned (ok) or raised
HighPollDone(ok) ==
    /\ loop_pc = "high_poll"
    /\ priority' = IF ok THEN [priority EXCEPT ![Polling] = reset_priority(@)]
                   ELSE priority
    /\ normal_log' = IF ok /\ priority[Polling] = PollPriorityHIGH
                     THEN Restart ELSE normal_log
    /\ settled' = (settled /\ ~(ok /\ priority[Polling] = PollPriorityHIGH))
    /\ failed_high' = [failed_high EXCEPT ![Polling] = IF ok THEN 0 ELSE 1]
    /\ loop_pc' = AfterPoll(loop_pc, ok)
    /\ last' = Step(IF ok THEN "high_ok" ELSE "high_raise", ok, Polling)
    /\ UNCHANGED <<coordinators, high_priority_entities, normal_entities, hi,
                   rr_index, iteration, high_at_partition, polled>>
    /\ UNCHANGED <<recVars, setupVars, entryVars, groupVars, accVars, cfgVars, discVars>>

\* light.py 418-428: the sleep after a HIGH entity is over; the next HIGH
\* entity is polled, or the NORMAL slot, or the iteration ends
HighSleepDone ==
    /\ loop_pc = "high_sleep"
    /\ IF MoreHigh(hi, high_priority_entities)
       THEN /\ hi' = hi + 1
            /\ loop_pc' = "high_poll"
            /\ polled' = polled \cup {high_priority_entities[hi + 1]}
            /\ normal_log' = normal_log
            /\ last' = Step("high_poll", TRUE, high_priority_entities[hi + 1])
       ELSE IF normal_entities # <<>>
       THEN /\ hi' = hi
            /\ loop_pc' = "normal_poll"
            /\ polled' = polled \cup {RoundRobinPick(normal_entities, rr_index)}
            /\ normal_log' = Append(normal_log,
                                    RoundRobinPick(normal_entities, rr_index))
            /\ last' = Step("normal_poll", TRUE,
                            RoundRobinPick(normal_entities, rr_index))
       ELSE /\ hi' = hi
            /\ loop_pc' = "top"
            /\ polled' = polled
            /\ normal_log' = normal_log
            /\ last' = Step("sleep_done", TRUE, 0)
    /\ UNCHANGED <<coordinators, high_priority_entities, normal_entities,
                   rr_index, iteration, high_at_partition, failed_high,
                   settled, priority>>
    /\ UNCHANGED <<recVars, setupVars, entryVars, groupVars, accVars, cfgVars, discVars>>

\* light.py 428-434: the refresh of the NORMAL slot returned (ok) or raised
NormalPollDone(ok) ==
    /\ loop_pc = "normal_poll"
    /\ rr_index' = IF ok THEN AdvanceCursor(rr_index) ELSE rr_index
    /\ loop_pc' = AfterPoll(loop_pc, ok)
    /\ last' = Step(IF ok THEN "normal_ok" ELSE "normal_raise", ok, Polling)
    /\ UNCHANGED <<coordinators, high_priority_entities, normal_entities, hi,
                   iteration, high_at_partition, polled, normal_log,
                   failed_high, settled, priority>>
    /\ UNCHANGED <<recVars, setupVars, entryVars, groupVars, accVars, cfgVars, discVars>>

\* light.py 435: the sleep after the NORMAL slot is over
NormalSleepDone ==
    /\ loop_pc = "normal_sleep"
    /\ loop_pc' = "top"
    /\ last' = Step("sleep_done", TRUE, 0)
    /\ UNCHANGED <<coordinators, high_priority_entities, normal_entities, hi,
                   rr_index, iteration, high_at_partition, polled, normal_log,
                   failed_high, settled, priority>>
    /\ UNCHANGED <<recVars, setupVars, entryVars, groupVars, accVars, cfgVars, discVars>>

\* light.py 437-438: an exception escapes the cycle body at one of the
\* awaits outside the per-entity try blocks and is caught by the outer handler
CycleRaises ==
    /\ loop_pc \in {"empty_sleep", "high_sleep", "normal_sleep"}
    /\ loop_pc' = "error_sleep"
    /\ last' = Step("cycle_raise", FALSE, 0)
    /\ UNCHANGED <<coordinators, high_priority_entities, normal_entities, hi,
                   rr_index, iteration, high_at_partition, polled, normal_log,
                   failed_high, settled, priority>>
    /\ UNCHANGED <<recVars, setupVars, entryVars, groupVars, accVars, cfgVars, discVars>>

\* light.py 439: the outer handler's sleep is over, "while True" goes on
ErrorSleepDone ==
    /\ loop_pc = "error_sleep"
    /\ loop_pc' = "top"
    /\ last' = Step("error_sleep_done", TRUE, 0)
    /\ UNCHANGED <<coordinators, high_priority_entities, normal_entities, hi,
                   rr_index, iteration, high_at_partition, polled, normal_log,
                   failed_high, settled, priority>>
    /\ UNCHANGED <<recVars, setupVars, entryVars, groupVars, accVars, cfgVars, discVars>>

\* ------------------------------------------- discovery and entity creation
\* a task slot without a running _create_entities_for_devices
NoRun == [pc |-> "none", todo |-> <<>>, new |-> <<>>]

\* the lists of lights a discovery message may carry
DiscoveryLists ==
    { <<a>> : a \in 1..MaxEntities } \cup { <<1, 2>> }

\* discovery.py 80-83: self.devices[device_addr] = light, in the dict's order
RECURSIVE Discovered(_, _)
Discovered(devs, lights) ==
    IF lights = <<>> THEN devs
    ELSE Discovered(IF Head(lights) \in Range(devs) THEN devs
                    ELSE Append(devs, Head(lights)),
                    Tail(lights))

\* light.py 253-256: the loop skips the addresses found in created_entities
RECURSIVE SkipCreated(_, _)
SkipCreated(todo, created) ==
    IF todo = <<>> THEN <<>>
    ELSE IF Head(todo) \in created THEN SkipCreated(Tail(todo), created)
    ELSE todo

\* async_add_entities(new_entities)
AddEntities(added, new) == added \cup { new[i] : i \in 1..Len(new) }

\* the run goes on with the devices left: it constructs the coordinator of
\* the next device and awaits its subscription, or it ends
RunGoesOn(r, todo, created, new) ==
    LET rest == SkipCreated(todo, created) IN
    /\ runs' = [runs EXCEPT ![r] =
                   IF rest = <<>> THEN NoRun
                   ELSE [pc |-> "subscribing", todo |-> rest, new |-> new]]
    \* light.py 332-354: after the loop the run hands its new_entities to
    \* async_add_entities
    /\ added_entities' = IF rest = <<>>
                         THEN AddEntities(added_entities, new)
                         ELSE added_entities

\* discovery._on_lights_message with a list of lights, and the
\* _on_devices_updated listener that the fired event calls
LightsMessage(lights) ==
    /\ \E r \in 1..MaxRuns :
         /\ runs[r] = NoRun
         /\ \A q \in 1..(r - 1) : runs[q] # NoRun
         /\ runs' = [runs EXCEPT ![r] = [pc |-> "start", todo |-> <<>>,
                                       new |-> <<>>]]
    /\ devices' = Discovered(devices, lights)
    /\ last' = Step("lights", TRUE, Len(lights))
    /\ UNCHANGED <<created_entities, made, added_entities, priority>>
    /\ UNCHANGED <<recVars, rotVars, entryVars, groupVars, accVars, cfgVars, discVars>>

\* An entry of a discovery list: an object with its device_addr (0: the key
\* is missing or null) and the rest of the descriptor v, or a value that is
\* not an object.
Light(a, v) == [t |-> "obj", addr |-> a, v |-> v]
NotAnObject == [t |-> "num", addr |-> 0, v |-> 0]

\* a decoded discovery payload: a list of entries, or anything else (a
\* payload that is no JSON at all ends the handler in the same way)
LightsList(items) == [t |-> "list", items |-> items]
NoList == [t |-> "other", items |-> <<>>]

\* discovery.py 79-82 for one entry: self.devices[device_addr] = light
StoreLight(dir, light) ==
    [a \in (DOMAIN dir) \cup {light.addr} |->
        IF a = light.addr THEN light ELSE dir[a]]

\* discovery.py 79-87, the for loop: light.get raises AttributeError on an
\* entry that is not an object, which ends the loop with the earlier entries
\* stored
RECURSIVE StoreLights(_, _)
StoreLights(dir, items) ==
    IF items = <<>> THEN [dir |-> dir, raised |-> FALSE]
    ELSE IF Head(items).t # "obj" THEN [dir |-> dir, raised |-> TRUE]
    ELSE StoreLights(IF Head(items).addr # 0
                     THEN StoreLight(dir, Head(items)) ELSE dir,
                     Tail(items))

\* the addresses the loop stores, in its order
RECURSIVE StoredAddrs(_)
StoredAddrs(items) ==
    IF items = <<>> \/ Head(items).t # "obj" THEN <<>>
    ELSE IF Head(items).addr # 0
    THEN <<Head(items).addr>> \o StoredAddrs(Tail(items))
    ELSE StoredAddrs(Tail(items))

\* discovery._on_lights_message while no platform listens to the event it
\* fires
OnLightsMessage(p) ==
    /\ "lights" \in subs
    /\ IF p.t # "list"
       THEN /\ last' = [op |-> "lights_invalid", ok |-> TRUE, val |-> 0,
                        p |-> p, fired |-> FALSE]
            /\ UNCHANGED <<directory, devices>>
       ELSE LET r == StoreLights(directory, p.items) IN
            /\ directory' = r.dir
            /\ devices' = Discovered(devices, StoredAddrs(p.items))
            \* discovery.py 91: hass.bus.async_fire(EVENT_DEVICES_UPDATED)
            /\ last' = [op |-> IF r.raised THEN "lights_raise" ELSE "lights",
                        ok |-> ~r.raised, val |-> Len(p.items), p |-> p,
                        fired |-> ~r.raised]
    /\ UNCHANGED <<groups, scenes>>
    /\ UNCHANGED <<created_entities, made, added_entities, runs, priority>>
    /\ UNCHANGED <<recVars, rotVars, entryVars, groupVars, accVars, cfgVars>>

\* discovery._on_groups_message (discovery.py 96-122): the entries are stored
\* by group_main_addr and no event is fired. The three discovery handlers are
\* subscribed and unsubscribed together (discovery.py 35-60).
OnGroupsMessage(p) ==
    /\ "lights" \in subs
    /\ IF p.t # "list"
       THEN /\ last' = [op |-> "groups_invalid", ok |-> TRUE, val |-> 0,
                        p |-> p, fired |-> FALSE]
            /\ UNCHANGED groups
       ELSE LET r == StoreLights(groups, p.items) IN
            /\ groups' = r.dir
            /\ last' = [op |-> IF r.raised THEN "groups_raise" ELSE "groups",
                        ok |-> ~r.raised, val |-> Len(p.items), p |-> p,
                        fired |-> FALSE]
    /\ UNCHANGED <<directory, scenes>>
    /\ UNCHANGED <<setupVars, priority>>
    /\ UNCHANGED <<recVars, rotVars, entryVars, groupVars, accVars, cfgVars>>

\* discovery._on_scenes_message (discovery.py 124-149): the entries are stored
\* by scene_id and no event is fired
OnScenesMessage(p) ==
    /\ "lights" \in subs
    /\ IF p.t # "list"
       THEN /\ last' = [op |-> "scenes_invalid", ok |-> TRUE, val |-> 0,
                        p |-> p, fired |-> FALSE]
            /\ UNCHANGED scenes
       ELSE LET r == StoreLights(scenes, p.items) IN
            /\ scenes' = r.dir
            /\ last' = [op |-> IF r.raised THEN "scenes_raise" ELSE "scenes",
                        ok |-> ~r.raised, val |-> Len(p.items), p |-> p,
                        fired |-> FALSE]
    /\ UNCHANGED <<directory, groups>>
    /\ UNCHANGED <<setupVars, priority>>
    /\ UNCHANGED <<recVars, rotVars, entryVars, groupVars, accVars, cfgVars>>

\* light.py 250-310: a creation task runs up to its first await
RunStart(r) ==
    /\ runs[r].pc = "start"
    /\ RunGoesOn(r, devices, created_entities, <<>>)
    /\ last' = Step("run_start", TRUE, r)
    /\ UNCHANGED <<devices, created_entities, made, priority>>
    /\ UNCHANGED <<recVars, rotVars, entryVars, groupVars, accVars, cfgVars, discVars>>

\* light.py 310-330 and on to the next await: the subscription returned, the
\* entity is constructed and recorded, the loop goes on
RunSubscribed(r) ==
    /\ runs[r].pc = "subscribing"
    /\ LET a == Head(runs[r].todo) IN
       /\ made' = [made EXCEPT ![a] = @ + 1]
       /\ coordinators' = IF a \in Range(coordinators) THEN coordinators
                          ELSE Append(coordinators, a)
       /\ priority' = [priority EXCEPT ![a] = PollPriorityNORMAL]
       /\ created_entities' = created_entities \cup {a}
       /\ RunGoesOn(r, Tail(runs[r].todo), created_entities \cup {a},
                    Append(runs[r].new, a))
       /\ last' = Step("entity", TRUE, a)
    /\ normal_log' = Restart
    /\ settled' = FALSE
    /\ UNCHANGED <<loop_pc, high_priority_entities, normal_entities, hi,
                   rr_index, iteration, high_at_partition, polled, failed_high>>
    /\ subs' = subs \cup {"status"}
    /\ UNCHANGED <<entry_state, use_ha_mqtt, discovery_started,
                   session_stored, forwarded, ha_started, start_listeners,
                   loop_tasks, loops_polling, setup_no,
                   stale_with_entities>>
    /\ UNCHANGED <<devices, recVars, groupVars, accVars, cfgVars, discVars>>

\* light.py 310: the subscription raised; the task ends with the exception
RunSubscribeFails(r) ==
    /\ runs[r].pc = "subscribing"
    /\ runs' = [runs EXCEPT ![r] = NoRun]
    /\ last' = Step("run_raise", FALSE, r)
    /\ UNCHANGED <<devices, created_entities, made, added_entities, priority>>
    /\ UNCHANGED <<recVars, rotVars, entryVars, groupVars, accVars, cfgVars, discVars>>

\* --------------------------------------------------------- the on/off accessor
\* A field value as is_on sees it: a number, a bool, a string or None.
Num(n) == [t |-> "num", n |-> n, s |-> ""]
Bool(b) == [t |-> "bool", n |-> IF b THEN 1 ELSE 0, s |-> ""]
Text(s) == [t |-> "str", n |-> 0, s |-> s]
Null == [t |-> "null", n |-> 0, s |-> ""]

\* isinstance(x, (int, float)): a bool is an int
IsNumber(x) == x.t \in {"num", "bool"}

\* faulty variant: the upper-case encoding is not recognised
OnEncodingLowerOnly(x) ==
    IF IsNumber(x) THEN x.n # 0 ELSE x.t = "str" /\ x.s \in {"on", "1"}

\* light.py 566, 572-574: bool(x) for a number, and otherwise
\* x in ("on", "ON", True, 1, "1")
OnEncoding(x) ==
    IF IsNumber(x) THEN x.n # 0 ELSE x.t = "str" /\ x.s \in {"on", "ON", "1"}

\* status.get(key): None when the key is missing
FieldOf(d, key) == IF key \in DOMAIN d THEN d[key] ELSE Null

\* the fields is_on looks at, in the order in which it looks at them
OnOffFields == <<"onoff", "onOff", "power", "state">>

\* HafeleLightEntity.is_on: "None", "True" or "False"
RECURSIVE FirstOnOff(_, _)
FirstOnOff(d, i) ==
    IF i > Len(OnOffFields) THEN "None"
    ELSE IF FieldOf(d, OnOffFields[i]) # Null
    THEN IF OnEncoding(FieldOf(d, OnOffFields[i])) THEN "True" ELSE "False"
    ELSE FirstOnOff(d, i + 1)

is_on(v) ==
    IF ~Truthy(v) THEN "None"
    ELSE IF IsDict(v) THEN FirstOnOff(v.d, 1)
    ELSE "None"

\* the platform reads the property
IsOn ==
    /\ last' = [op |-> "is_on", ok |-> TRUE, val |-> is_on(status),
                p |-> NoPayload]
    /\ UNCHANGED <<recVars, rotVars, setupVars, entryVars, groupVars, accVars, cfgVars,
                   discVars, priority>>

\* ------------------------------------------------- the entry's setup and unload
\* faulty variant: the setup goes on although the connection failed
AfterConnectIgnored(ok) == "connected"

\* __init__.py 45 with mqtt_client.py 50-84: async_connect returns, or raises
\* ConnectionError, which async_setup_entry does not catch
AfterConnect(ok) == IF ok THEN "connected" ELSE "setup_failed"

\* __init__.py 19-45: async_setup_entry up to the connection attempt
SetupConnect(ok) ==
    /\ entry_state = "new"
    /\ entry_state' = AfterConnect(ok)
    /\ last' = Step(IF ok THEN "connected" ELSE "setup_raise", ok, 0)
    /\ UNCHANGED <<use_ha_mqtt, discovery_started, session_stored, forwarded,
                   subs, ha_started, start_listeners, loop_tasks,
                   loops_polling, setup_no,
                   stale_with_entities, priority>>
    /\ UNCHANGED <<recVars, rotVars, setupVars, groupVars, accVars, cfgVars, discVars>>

\* __init__.py 48-60: discovery subscribes its topics, the session data is
\* stored
SetupDiscovery ==
    /\ entry_state = "connected"
    /\ discovery_started' = TRUE
    /\ subs' = subs \cup {"lights"}
    /\ session_stored' = TRUE
    /\ entry_state' = "forwarding"
    /\ last' = Step("discovery", TRUE, 0)
    /\ UNCHANGED <<use_ha_mqtt, forwarded, ha_started, start_listeners,
                   loop_tasks, loops_polling, setup_no,
                   stale_with_entities, priority>>
    /\ UNCHANGED <<recVars, rotVars, setupVars, groupVars, accVars, cfgVars, discVars>>

\* __init__.py 63 with light.py 223-451: the platforms are set up; under
\* rotational polling the light platform registers a one-time listener for
\* EVENT_HOMEASSISTANT_STARTED (light.py 445-448) and keeps no handle on it
SetupForward ==
    /\ entry_state = "forwarding"
    /\ forwarded' = TRUE
    /\ start_listeners' = IF polling_mode = POLLING_MODE_ROTATIONAL
                          THEN start_listeners \cup {setup_no}
                          ELSE start_listeners
    /\ entry_state' = "loaded"
    /\ last' = Step("forwarded", TRUE, 0)
    /\ UNCHANGED <<use_ha_mqtt, discovery_started, session_stored, subs,
                   ha_started, loop_tasks, loops_polling, setup_no,
                   stale_with_entities, priority>>
    /\ UNCHANGED <<recVars, rotVars, setupVars, groupVars, accVars, cfgVars, discVars>>

\* discovery.async_stop calls the unsubscribers of its own topics;
\* mqtt_client.async_disconnect (86-109, 155-163) unsubscribes every topic of
\* a direct connection, but over the platform's MQTT integration it only
\* forgets the topics: the unsubscribe callables the coordinators hold are
\* never called
RemainingSubs(ha, handlers) == IF ha THEN handlers \ {"lights"} ELSE {}

\* __init__.py 68-85: async_unload_entry; nothing in it, and nothing it
\* calls, cancels the rotational polling task
UnloadEntry(unload_ok) ==
    /\ entry_state = "loaded"
    /\ IF unload_ok
       THEN /\ entry_state' = "unloaded"
            /\ forwarded' = FALSE
            /\ session_stored' = FALSE
            /\ discovery_started' = FALSE
            /\ subs' = RemainingSubs(use_ha_mqtt, subs)
       ELSE UNCHANGED <<entry_state, forwarded, session_stored,
                        discovery_started, subs>>
    /\ last' = Step("unload", unload_ok, 0)
    /\ UNCHANGED <<use_ha_mqtt, ha_started, start_listeners, loop_tasks,
                   loops_polling, setup_no,
                   stale_with_entities, priority>>
    /\ UNCHANGED <<recVars, rotVars, setupVars, groupVars, accVars, cfgVars, discVars>>

\* the entry is set up again after its unload (a reload): async_setup_entry
\* starts anew with a new client, a new discovery and, in the light platform,
\* a new coordinators dict; the dict of the setup before stays with the
\* listener and the loop of that setup
SetupAgain ==
    /\ entry_state = "unloaded"
    /\ setup_no < MaxLoops
    /\ entry_state' = "new"
    /\ setup_no' = setup_no + 1
    /\ stale_with_entities' =
          stale_with_entities
          \cup (IF coordinators # <<>> THEN {setup_no} ELSE {})
    /\ coordinators' = <<>>
    /\ last' = Step("setup_again", TRUE, setup_no + 1)
    /\ UNCHANGED <<use_ha_mqtt, discovery_started, session_stored, forwarded,
                   subs, ha_started, start_listeners, loop_tasks,
                   loops_polling, priority>>
    /\ UNCHANGED <<loop_pc, high_priority_entities, normal_entities, hi,
                   rr_index, iteration, high_at_partition, polled, normal_log,
                   failed_high, settled>>
    /\ UNCHANGED <<recVars, setupVars, groupVars, accVars, cfgVars, discVars>>

\* the platform fires EVENT_HOMEASSISTANT_STARTED, once: every listener
\* registered with async_listen_once creates its loop task (light.py 445-447)
HaStarted ==
    /\ ~ha_started
    /\ ha_started' = TRUE
    /\ loop_tasks' = loop_tasks \cup start_listeners
    /\ start_listeners' = {}
    /\ last' = Step("ha_started", TRUE, Cardinality(start_listeners))
    /\ UNCHANGED <<entry_state, use_ha_mqtt, discovery_started, session_stored,
                   forwarded, subs, loops_polling, setup_no,
                   stale_with_entities, priority>>
    /\ UNCHANGED <<recVars, rotVars, setupVars, groupVars, accVars, cfgVars, discVars>>

\* light.py 92-96: a device coordinator gets an update_interval, and with it
\* a periodic refresh of its own, in normal mode only; group.py 84: a group
\* coordinator gets one whatever the mode is
HasUpdateInterval(k, mode) == k = "group" \/ mode = POLLING_MODE_NORMAL

\* the coordinator's own periodic refresh begins a poll; the timer runs
\* while the coordinator's entity is part of the platform
TimerPoll ==
    /\ HasUpdateInterval(kind, polling_mode)
    /\ entry_state = "loaded"
    /\ coordinators # <<>>
    /\ PollBegin

\* the coordinators dict of setup g holds an entity
HasEntities(g) ==
    IF g = setup_no THEN coordinators # <<>> ELSE g \in stale_with_entities

\* mqtt_client.py 177-182: the request of a refresh is published over the
\* platform's MQTT integration at any time, over a direct connection only
\* while the client of that setup is connected
PublishesFor(g) == use_ha_mqtt \/ (g = setup_no /\ entry_state = "loaded")

\* light.py 411, 428: the loop of setup g, not polling, awaits the refresh of
\* one of its device entities' coordinators; the reconciler publishes its
\* request and waits for the response
LoopPoll(g) ==
    /\ g \in loop_tasks \ loops_polling
    /\ HasEntities(g)
    /\ PublishesFor(g)
    /\ loops_polling' = loops_polling \cup {g}
    /\ last' = Step("loop_poll", TRUE, g)
    /\ UNCHANGED <<entry_state, use_ha_mqtt, discovery_started, session_stored,
                   forwarded, subs, ha_started, start_listeners, loop_tasks,
                   setup_no, stale_with_entities, priority>>
    /\ UNCHANGED <<recVars, rotVars, setupVars, groupVars, accVars, cfgVars, discVars>>

\* the refresh returned, by response or by timeout, or raised: the loop goes
\* on to its sleep
LoopPollReturns(g, ok) ==
    /\ g \in loops_polling
    /\ loops_polling' = loops_polling \ {g}
    /\ last' = Step("loop_poll_done", ok, g)
    /\ UNCHANGED <<entry_state, use_ha_mqtt, discovery_started, session_stored,
                   forwarded, subs, ha_started, start_listeners, loop_tasks,
                   setup_no, stale_with_entities, priority>>
    /\ UNCHANGED <<recVars, rotVars, setupVars, groupVars, accVars, cfgVars, discVars>>

\* mqtt_client.py 177-182: a direct connection refuses to publish once it is
\* disconnected, the platform's MQTT integration goes on publishing
CanPublish == use_ha_mqtt \/ entry_state # "unloaded"

\* ------------------------------------------------------------ specifications
InitialPriority == [e \in 1..MaxEntities |-> PollPriorityNORMAL]

\* a coordinator and its entity as their constructors leave them
Constructed(kinds, modes) ==
    /\ kind \in kinds
    /\ polling_mode \in modes
    /\ status_data = Dict(EmptyDict)
    /\ status_received = FALSE
    /\ data = PyNone
    /\ data_is_status = FALSE
    /\ poll_pc = "idle"
    /\ old_data = Dict(EmptyDict)
    /\ elapsed = 0
    /\ poll_pubs = <<>>
    /\ cmd_pc = "idle"
    /\ cmd_brightness = -1
    /\ cmd_light = -1
    /\ cmd_pubs = <<>>
    /\ last_known_lightness = -1
    /\ attr_color_temp = -1
    /\ priority = InitialPriority
    /\ fmu_sleep1 = 0
    /\ fmu_sleep2 = 0
    /\ fmu_pubs = <<>>
    /\ req_snapshot = Dict(EmptyDict)
    /\ opt_pending = EmptyDict
    /\ ramp_tasks = <<>>
    /\ ramp_pubs = <<>>
    /\ last = Step("init", TRUE, 0)

\* the rotational loop before it is started
LoopNotStarted ==
    /\ loop_pc = "top"
    /\ high_priority_entities = <<>>
    /\ normal_entities = <<>>
    /\ hi = 0
    /\ rr_index = 0
    /\ iteration = 0
    /\ high_at_partition = {}
    /\ polled = {}
    /\ normal_log = <<>>
    /\ failed_high = [e \in 1..MaxEntities |-> 0]
    /\ settled = FALSE

\* the entry set up over the platform's MQTT integration, its platforms
\* forwarded: the state the reconciler, command, loop and creation
\* specifications start from
EntryLoaded(handlers) ==
    /\ entry_state = "loaded"
    /\ use_ha_mqtt = TRUE
    /\ discovery_started = TRUE
    /\ session_stored = TRUE
    /\ forwarded = TRUE
    /\ subs = handlers
    /\ ha_started = TRUE
    /\ setup_no = 1
    /\ stale_with_entities = {}
    /\ start_listeners = {}
    /\ loop_tasks = IF polling_mode = POLLING_MODE_ROTATIONAL THEN {1} ELSE {}
    /\ loops_polling = {}

\* the light platform before any discovery message and any creation run
NothingDiscovered ==
    /\ devices = <<>>
    /\ directory = EmptyDict
    /\ groups = EmptyDict
    /\ scenes = EmptyDict
    /\ created_entities = {}
    /\ made = [a \in 1..MaxEntities |-> 0]
    /\ added_entities = {}
    /\ runs = [r \in 1..MaxRuns |-> NoRun]

vars == <<recVars, rotVars, setupVars, entryVars, groupVars, accVars, cfgVars,
          discVars, priority, last>>

\* The status reconciler of a device or a group: status messages and polls.
Init ==
    /\ Constructed({"mono", "multiwhite", "group"}, {POLLING_MODE_NORMAL})
    /\ coordinators = <<>>
    /\ LoopNotStarted
    /\ EntryLoaded({"lights", "status"})
    /\ NothingDiscovered
    /\ status = PyNone
    /\ extra_turn \in BOOLEAN

Next ==
    \/ \E p \in StatusPayloads : OnStatusMessage(p)
    \/ PollBegin
    \/ PollPublish
    \/ PollPublishFails
    \/ PollTick
    \/ PollReturn

Spec == Init /\ [][Next]_vars

\* The same with the wait loop going on: each asyncio.sleep(0.1) of the loop
\* ends, after which the loop takes its next turn or the poll returns.
WaitStep == PollTick \/ PollReturn

SpecWait == Init /\ [][Next]_vars /\ WF_vars(WaitStep)

\* A device entity: commands, the deferred confirmation task, and the status
\* messages and polls of its coordinator.
CmdStatusPayloads ==
    { [t |-> p.t, d |-> p.d, text |-> ""] :
        p \in {Dict([lightness |-> 50]), Dict([onoff |-> 0]), PyList} }

InitCmd ==
    /\ Constructed({"mono", "multiwhite"},
                   {POLLING_MODE_NORMAL, POLLING_MODE_ROTATIONAL})
    /\ coordinators = <<>>
    /\ LoopNotStarted
    /\ EntryLoaded({"lights", "status"})
    /\ NothingDiscovered
    /\ status = PyNone
    /\ extra_turn = FALSE

NextCmd ==
    \/ \E p \in CmdStatusPayloads : OnStatusMessage(p)
    \/ ReadBrightness
    \/ \E b \in BrightnessInputs \cup {-1}, t \in KelvinInputs \cup {-1} :
            TurnOnBegin(b, t)
    \/ TurnOffBegin
    \/ CommandPublish
    \/ CommandPublishFails
    \/ FmuEscalate
    \/ \E ok \in BOOLEAN : FmuRequest(ok)

SpecCmd == InitCmd /\ [][NextCmd]_vars

\* A group entity: its commands, the tasks that ask for the status after the
\* ramp, and the status messages of its coordinator.
InitGroup ==
    /\ Constructed({"group"}, {POLLING_MODE_NORMAL, POLLING_MODE_ROTATIONAL})
    /\ coordinators = <<>>
    /\ LoopNotStarted
    /\ EntryLoaded({"lights", "status"})
    /\ NothingDiscovered
    /\ status = PyNone
    /\ extra_turn = FALSE

NextGroup ==
    \/ \E p \in CmdStatusPayloads : OnStatusMessage(p)
    \/ \E b \in BrightnessInputs \cup {-1} : GroupTurnOnBegin(b)
    \/ GroupTurnOffBegin
    \/ GroupCommandPublish
    \/ GroupCommandPublishFails
    \/ \E n \in 0..2 : GroupRampRequest(n)

SpecGroup == InitGroup /\ [][NextGroup]_vars

\* The on/off accessor over the snapshots it can be handed: no data, a list,
\* and every mapping of the four on/off fields and lightness to the encodings.
OnOffEncodings ==
    {Num(0), Num(1), Bool(TRUE), Bool(FALSE), Text("on"), Text("ON"),
     Text("off"), Null}

Snapshots ==
    {PyNone, PyList}
    \cup { Dict(d) :
             d \in UNION { [keys -> OnOffEncodings] :
                             keys \in SUBSET {"onoff", "onOff", "power",
                                              "state"} } }
    \cup { Dict([lightness |-> Num(50)]) }

InitIsOn ==
    /\ Constructed({"mono"}, {POLLING_MODE_NORMAL})
    /\ coordinators = <<>>
    /\ LoopNotStarted
    /\ EntryLoaded({"lights", "status"})
    /\ NothingDiscovered
    /\ status \in Snapshots
    /\ extra_turn = FALSE

NextIsOn == IsOn

SpecIsOn == InitIsOn /\ [][NextIsOn]_vars

\* The discovery directory between discovery.async_start and the setup of
\* the platforms: discovery messages of every shape.
LightEntries ==
    { Light(a, v) : a \in 0..MaxAddr, v \in 1..MaxDescriptors }
    \cup {NotAnObject}

LightsPayloads ==
    {NoList}
    \cup { LightsList(items) :
             items \in UNION { [1..n -> LightEntries] : n \in 0..MaxListLen } }

InitDisc ==
    /\ Constructed({"mono"}, {POLLING_MODE_NORMAL})
    /\ coordinators = <<>>
    /\ LoopNotStarted
    /\ NothingDiscovered
    /\ status = PyNone
    /\ extra_turn = FALSE
    /\ entry_state = "forwarding"
    /\ use_ha_mqtt \in BOOLEAN
    /\ discovery_started = TRUE
    /\ session_stored = TRUE
    /\ forwarded = FALSE
    /\ subs = {"lights"}
    /\ ha_started = FALSE
    /\ setup_no = 1
    /\ stale_with_entities = {}
    /\ start_listeners = {}
    /\ loop_tasks = {}
    /\ loops_polling = {}

\* the groups and scenes messages of the same shapes, over one address
GroupEntries == {Light(0, 1), Light(1, 1), NotAnObject}

GroupsPayloads ==
    {NoList}
    \cup { LightsList(items) :
             items \in UNION { [1..n -> GroupEntries] : n \in 0..1 } }

NextDisc ==
    \/ \E p \in LightsPayloads : OnLightsMessage(p)
    \/ \E p \in GroupsPayloads : OnGroupsMessage(p)
    \/ \E p \in GroupsPayloads : OnScenesMessage(p)

SpecDisc == InitDisc /\ [][NextDisc]_vars

\* The rotational polling loop over the device entities, with entities being
\* discovered and commands escalating priorities while it runs.
InitRot ==
    /\ Constructed({"mono"}, {POLLING_MODE_ROTATIONAL})
    /\ coordinators = <<>>
    /\ LoopNotStarted
    /\ EntryLoaded({"lights"})
    /\ NothingDiscovered
    /\ status = PyNone
    /\ extra_turn = FALSE

NextRot ==
    \/ AddEntity
    \/ \E e \in 1..MaxEntities : Escalate(e)
    \/ Partition
    \/ EmptySleepDone
    \/ \E ok \in BOOLEAN : HighPollDone(ok)
    \/ HighSleepDone
    \/ \E ok \in BOOLEAN : NormalPollDone(ok)
    \/ NormalSleepDone

SpecRot == InitRot /\ [][NextRot]_vars

\* A device entity that is only turned on, with every brightness of the
\* platform's scale, and whose brightness is read back.
InitBright ==
    /\ Constructed({"mono", "multiwhite"}, {POLLING_MODE_NORMAL})
    /\ coordinators = <<>>
    /\ LoopNotStarted
    /\ EntryLoaded({"lights", "status"})
    /\ NothingDiscovered
    /\ status = PyNone
    /\ extra_turn = FALSE

NextBright ==
    \/ \E b \in -1..MaxBrightness : TurnOnBegin(b, -1)
    \/ CommandPublish
    \/ ReadBrightness

SpecBright == InitBright /\ [][NextBright]_vars

\* The light platform's entity creation: discovery messages and the creation
\* tasks they start, next to the run that the platform setup itself awaits.
InitCreate ==
    /\ Constructed({"mono"}, {POLLING_MODE_NORMAL})
    /\ coordinators = <<>>
    /\ LoopNotStarted
    /\ EntryLoaded({"lights"})
    \* the devices discovered before the platform is set up
    /\ devices \in {<<>>, <<1>>, <<1, 2>>}
    /\ directory = [a \in Range(devices) |-> Light(a, 1)]
    /\ groups = EmptyDict
    /\ scenes = EmptyDict
    /\ created_entities = {}
    /\ made = [a \in 1..MaxEntities |-> 0]
    /\ added_entities = {}
    \* light.py 370: the setup's own run, at its first await if it has one
    /\ runs = [r \in 1..MaxRuns |->
                 IF r = 1 /\ devices # <<>>
                 THEN [pc |-> "subscribing", todo |-> devices, new |-> <<>>]
                 ELSE NoRun]
    /\ status = PyNone
    /\ extra_turn = FALSE

NextCreate ==
    \/ \E lights \in DiscoveryLists : LightsMessage(lights)
    \/ \E r \in 1..MaxRuns : RunStart(r)
    \/ \E r \in 1..MaxRuns : RunSubscribed(r)
    \/ \E r \in 1..MaxRuns : RunSubscribeFails(r)

SpecCreate == InitCreate /\ [][NextCreate]_vars

\* The rotational loop with the exceptions that may escape its cycle body.
\* Every sleep ends and every awaited refresh returns or raises (a poll is
\* bounded by its timeout), so the steps of the loop are weakly fair; the
\* commands and the exceptions are not.
LoopStep ==
    \/ EmptySleepDone
    \/ \E ok \in BOOLEAN : HighPollDone(ok)
    \/ HighSleepDone
    \/ \E ok \in BOOLEAN : NormalPollDone(ok)
    \/ NormalSleepDone
    \/ ErrorSleepDone

\* the entities that exist when the loop starts
InitLoop ==
    /\ Constructed({"mono"}, {POLLING_MODE_ROTATIONAL})
    /\ LoopNotStarted
    /\ NothingDiscovered
    /\ status = PyNone
    /\ extra_turn = FALSE
    /\ \E n \in 0..MaxEntities : coordinators = [e \in 1..n |-> e]
    /\ EntryLoaded(IF coordinators = <<>> THEN {"lights"}
                   ELSE {"lights", "status"})

NextLoop ==
    \/ \E e \in 1..MaxEntities : Escalate(e)
    \/ Partition
    \/ EmptySleepDone
    \/ \E ok \in BOOLEAN : HighPollDone(ok)
    \/ HighSleepDone
    \/ \E ok \in BOOLEAN : NormalPollDone(ok)
    \/ NormalSleepDone
    \/ CycleRaises
    \/ ErrorSleepDone

SpecLoop == InitLoop /\ [][NextLoop]_vars /\ WF_vars(LoopStep)

\* The same loop with "while True" going on as well: nothing is awaited
\* between the end of an iteration and the split of the next one.
SpecLoopOn ==
    InitLoop /\ [][NextLoop]_vars /\ WF_vars(LoopStep) /\ WF_vars(Partition)

\* The config entry from its setup to after its unload, with the light
\* platform's entities, their status messages and the rotational loop.
EntryStatusPayloads ==
    { [t |-> "dict", d |-> [lightness |-> 50], text |-> ""] }

InitEntry ==
    /\ Constructed({"mono"}, {POLLING_MODE_NORMAL, POLLING_MODE_ROTATIONAL})
    /\ coordinators = <<>>
    /\ LoopNotStarted
    /\ NothingDiscovered
    /\ status = PyNone
    /\ extra_turn = FALSE
    /\ entry_state = "new"
    /\ use_ha_mqtt \in BOOLEAN
    /\ discovery_started = FALSE
    /\ session_stored = FALSE
    /\ forwarded = FALSE
    /\ subs = {}
    /\ ha_started = FALSE
    /\ setup_no = 1
    /\ stale_with_entities = {}
    /\ start_listeners = {}
    /\ loop_tasks = {}
    /\ loops_polling = {}

NextEntry ==
    \/ \E ok \in BOOLEAN : SetupConnect(ok)
    \/ SetupDiscovery
    \/ SetupForward
    \/ \E ok \in BOOLEAN : UnloadEntry(ok)
    \/ HaStarted
    \/ /\ entry_state = "loaded"
       /\ Len(coordinators) < MaxEntryEntities
       /\ AddEntity
    \/ entry_state = "loaded" /\ \E e \in 1..MaxEntities : Escalate(e)
    \/ "status" \in subs /\ \E p \in EntryStatusPayloads : OnStatusMessage(p)
    \/ loop_tasks # {} /\ Partition
    \/ loop_tasks # {} /\ EmptySleepDone
    \/ loop_tasks # {} /\ \E ok \in BOOLEAN : HighPollDone(ok)
    \/ loop_tasks # {} /\ HighSleepDone
    \/ loop_tasks # {} /\ \E ok \in BOOLEAN : NormalPollDone(ok)
    \/ loop_tasks # {} /\ NormalSleepDone

SpecEntry == InitEntry /\ [][NextEntry]_vars

\* The two polling policies over the life of the entry: its setup, unload
\* and renewed setup, the platform's start event, and the polls of one
\* reconciler begun by its own timer or by a rotational loop.
InitPolicy ==
    /\ Constructed({"mono", "multiwhite", "group"},
                   {POLLING_MODE_NORMAL, POLLING_MODE_ROTATIONAL})
    /\ coordinators = <<>>
    /\ LoopNotStarted
    /\ NothingDiscovered
    /\ status = PyNone
    /\ extra_turn = FALSE
    /\ entry_state = "new"
    /\ use_ha_mqtt \in BOOLEAN
    /\ discovery_started = FALSE
    /\ session_stored = FALSE
    /\ forwarded = FALSE
    /\ subs = {}
    /\ ha_started = FALSE
    /\ setup_no = 1
    /\ stale_with_entities = {}
    /\ start_listeners = {}
    /\ loop_tasks = {}
    /\ loops_polling = {}

NextPolicy ==
    \/ \E ok \in BOOLEAN : SetupConnect(ok)
    \/ SetupDiscovery
    \/ SetupForward
    \/ \E ok \in BOOLEAN : UnloadEntry(ok)
    \/ SetupAgain
    \/ HaStarted
    \/ entry_state = "loaded" /\ coordinators = <<>> /\ AddEntity
    \/ "status" \in subs /\ \E p \in EntryStatusPayloads : OnStatusMessage(p)
    \/ TimerPoll
    \/ \E g \in 1..MaxLoops : LoopPoll(g)
    \/ \E g \in 1..MaxLoops, ok \in BOOLEAN : LoopPollReturns(g, ok)
    \/ PollPublish
    \/ PollPublishFails
    \/ PollTick
    \/ PollReturn

SpecPolicy == InitPolicy /\ [][NextPolicy]_vars

\* The same with the platform finishing its startup (the event is fired once)
\* and with every loop task that exists going on to its next refresh.
SpecPolicyOn ==
    /\ InitPolicy /\ [][NextPolicy]_vars
    /\ WF_vars(HaStarted)
    /\ \A g \in 1..MaxLoops : WF_vars(LoopPoll(g))

\* A monochrome device entity whose coordinator is polled while commands run:
\* the poll's request, the command's optimistic write and the status messages
\* interleave at the awaits of both coroutines.
StaleStatusPayloads ==
    { [t |-> "dict", d |-> d, text |-> ""] :
        d \in {[lightness |-> 0], [lightness |-> 50]} }

StaleBrightnessInputs == {128}

InitStale ==
    /\ Constructed({"mono"}, {POLLING_MODE_NORMAL, POLLING_MODE_ROTATIONAL})
    /\ coordinators = <<>>
    /\ LoopNotStarted
    /\ EntryLoaded({"lights", "status"})
    /\ NothingDiscovered
    /\ status = PyNone
    /\ extra_turn = FALSE

NextStale ==
    \/ \E p \in StaleStatusPayloads : OnStatusMessage(p)
    \/ PollBegin
    \/ PollPublish
    \/ PollPublishFails
    \/ PollTick
    \/ PollReturn
    \/ \E b \in StaleBrightnessInputs : TurnOnBegin(b, -1)
    \/ TurnOffBegin
    \/ CommandPublish
    \/ CommandPublishFails
    \/ FmuEscalate
    \/ \E ok \in BOOLEAN : FmuRequest(ok)

SpecStale == InitStale /\ [][NextStale]_vars

\* ===================================================================== claims

\* C1 (as claimed): a poll during which no status message is accepted returns
\* exactly the snapshot (_status_data) as it was when the request was issued.
C1_TimeoutReturnsRequestSnapshot ==
    [][(PollReturn /\ ~status_received) => CoordData' = req_snapshot]_vars

\* the raw fields of a decoded object payload
RawFields(p) == Decoded(p).d

IsObject(p) == Decoded(p).t = "dict"

\* C2 (as claimed): an accepted object response overwrites every field it
\* carries and keeps every field it does not carry; applying it twice is the
\* same as once; A then B sharing no field yields the union of both.
ApplyStatus(k, snap, p) == MergeStatus(snap, HandlerData(k, p))

C2_MergeAsClaimed ==
    [][\A p \in StatusPayloads :
         (OnStatusMessage(p) /\ IsObject(p) /\ Accepted(kind, p)) =>
            /\ IsDict(status_data')
            /\ DOMAIN status_data'.d = DOMAIN status_data.d \cup DOMAIN RawFields(p)
            /\ \A f \in DOMAIN RawFields(p) : status_data'.d[f] = RawFields(p)[f]
            /\ \A f \in DOMAIN status_data.d \ DOMAIN RawFields(p) :
                   status_data'.d[f] = status_data.d[f]]_vars

\* on/off is derived, not merged, when a device response carries a lightness
Derives(k, p) == k # "group" /\ "lightness" \in DOMAIN RawFields(p)

\* the fields a response determines
Determined(k, p) ==
    DOMAIN RawFields(p) \cup (IF Derives(k, p) THEN {"onoff"} ELSE {})

\* C2 (amended): an accepted object response overwrites every field it
\* carries and keeps every field it does not carry, except on/off when a
\* device response carries a lightness: on/off is then derived from that
\* lightness.  Applying a response twice is the same as once, and A then B
\* determining no common field yields both their fields, in either order.
C2_PartialMerge ==
    /\ [][\A p \in StatusPayloads :
            (OnStatusMessage(p) /\ IsObject(p) /\ Accepted(kind, p)) =>
               /\ IsDict(status_data')
               /\ DOMAIN status_data'.d = DOMAIN status_data.d \cup Determined(kind, p)
               /\ \A f \in DOMAIN RawFields(p) :
                      (f = "onoff" /\ Derives(kind, p))
                          \/ status_data'.d[f] = RawFields(p)[f]
               /\ \A f \in DOMAIN status_data.d \ Determined(kind, p) :
                      status_data'.d[f] = status_data.d[f]]_vars
    /\ [](\A a \in StatusPayloads :
            (IsObject(a) /\ Accepted(kind, a)) =>
               /\ ApplyStatus(kind, ApplyStatus(kind, status_data, a), a)
                      = ApplyStatus(kind, status_data, a)
               /\ \A b \in StatusPayloads :
                    (IsObject(b) /\ Accepted(kind, b)
                        /\ Determined(kind, a) \cap Determined(kind, b) = {}) =>
                       LET ab == ApplyStatus(kind, ApplyStatus(kind, status_data, a), b)
                           ba == ApplyStatus(kind, ApplyStatus(kind, status_data, b), a)
                       IN /\ ab = ba
                          /\ \A f \in DOMAIN RawFields(a) \ {"onoff"} :
                                 ab.d[f] = RawFields(a)[f]
                          /\ \A f \in DOMAIN RawFields(b) \ {"onoff"} :
                                 ab.d[f] = RawFields(b)[f])

\* a device response with lightness 0 has been merged into a snapshot that
\* kept a temperature from an earlier response
C2_Witness ==
    /\ last.op = "status" /\ last.ok
    /\ kind = "multiwhite"
    /\ IsObject(last.p) /\ DOMAIN RawFields(last.p) = {"lightness", "onoff"}
    /\ IsDict(status_data)
    /\ DOMAIN status_data.d = {"onoff", "lightness", "temperature"}

\* C3: after a device coordinator accepts a response that contains a
\* lightness, the snapshot's onoff is 1 when lightness > 0 and 0 when it is 0,
\* whatever onoff the payload carried and whatever the snapshot held.
C3_LightnessDerivedOnOff ==
    [][\A p \in StatusPayloads :
         (OnStatusMessage(p) /\ kind # "group" /\ Accepted(kind, p)
             /\ IsObject(p) /\ "lightness" \in DOMAIN RawFields(p)) =>
            /\ IsDict(status_data')
            /\ "onoff" \in DOMAIN status_data'.d
            /\ RawFields(p)["lightness"] > 0 => status_data'.d["onoff"] = 1
            /\ RawFields(p)["lightness"] = 0 => status_data'.d["onoff"] = 0
            /\ CoordData' = status_data']_vars

\* a response carrying lightness 0 together with onoff 1 has been accepted by
\* a device coordinator
C3_Witness ==
    /\ last.op = "status" /\ last.ok
    /\ kind # "group"
    /\ IsObject(last.p)
    /\ DOMAIN RawFields(last.p) = {"lightness", "onoff"}
    /\ RawFields(last.p)["lightness"] = 0 /\ RawFields(last.p)["onoff"] = 1
    /\ status_data.d["onoff"] = 0

\* C4: a status payload that cannot be decoded is discarded: snapshot,
\* coordinator.data and the pending flag are as before, the handler reports no
\* data (no notification), and a poll in flight stays where it was.
C4_MalformedDiscarded ==
    [][\A p \in StatusPayloads :
         (OnStatusMessage(p) /\ Decoded(p).t = "error") =>
            /\ status_data' = status_data
            /\ CoordData' = CoordData
            /\ status_received' = status_received
            /\ ~last'.ok
            /\ poll_pc' = poll_pc /\ elapsed' = elapsed]_vars

\* an undecodable string has arrived while a poll was waiting, and the poll is
\* still waiting
C4_Witness ==
    /\ last.op = "status" /\ last.p.t = "str"
    /\ JsonLoads(last.p.text).t = "error"
    /\ poll_pc = "wait" /\ ~status_received
    /\ Truthy(status_data)

\* C5 (as claimed): with a fixed set of N NORMAL entities and no priority
\* change, any N consecutive NORMAL-slot cycles poll each of the N entities
\* exactly once.
C5_RoundRobinFairness ==
    settled =>
        LET normal == NormalEntities(coordinators, priority)
            N == Len(normal)
        IN \A i \in 1..(Len(normal_log) - N + 1) :
              \A e \in Range(normal) :
                 Cardinality({ j \in i..(i + N - 1) : normal_log[j] = e }) = 1

\* C6: in every outer iteration, every entity whose priority read HIGH when
\* the iteration split the entities has been polled by the time the NORMAL
\* slot of that iteration is polled.
C6_HighBeforeNormal ==
    loop_pc \in {"normal_poll", "normal_sleep"} => high_at_partition \subseteq polled

\* the NORMAL slot is being polled in an iteration that found two HIGH entities
C6_Witness ==
    /\ loop_pc = "normal_poll"
    /\ Cardinality(high_at_partition) >= 2
    /\ Polling \notin high_at_partition

RoundedUp(b, l) ==
    /\ l * MaxBrightness >= b * 100
    /\ (l - 1) * MaxBrightness < b * 100

\* C9 (as claimed): a monochrome turn-on with a brightness publishes exactly
\* the power-on command and then the set-lightness command; the snapshot is
\* untouched until both are published and then becomes on with the rounded-up
\* lightness, every other field kept.
C9_MonochromeTurnOn ==
    /\ [][(\E b \in BrightnessInputs : TurnOnBegin(b, -1)) =>
             CoordData' = CoordData]_vars
    /\ [][(CommandPublish /\ kind = "mono" /\ cmd_brightness # -1) =>
            IF cmd_pc = "on_power"
            THEN /\ CoordData' = CoordData
                 /\ cmd_pubs' = <<Msg("power", "true", EmptyDict)>>
            ELSE /\ Len(cmd_pubs') = 2
                 /\ cmd_pubs'[1] = Msg("power", "true", EmptyDict)
                 /\ cmd_pubs'[2].topic = "lightness"
                 /\ DOMAIN cmd_pubs'[2].d = {"lightness"}
                 /\ RoundedUp(cmd_brightness, cmd_pubs'[2].d["lightness"])
                 /\ IsDict(CoordData')
                 /\ DOMAIN CoordData'.d = DOMAIN CoordData.d \cup {"onoff", "lightness"}
                 /\ CoordData'.d["onoff"] = 1
                 /\ RoundedUp(cmd_brightness, CoordData'.d["lightness"])
                 /\ \A f \in DOMAIN CoordData.d \ {"onoff", "lightness"} :
                        CoordData'.d[f] = CoordData.d[f]]_vars

\* C10: for every requested brightness b in 0..255 the lightness a turn-on
\* writes is b/255 rounded up to the next hundredth, and the brightness the
\* entity then reports from it is not below b.
C10_NeverUndershoots ==
    (last.op = "on_done" /\ last.val # -1) =>
        /\ RoundedUp(last.val, CoordData.d["lightness"])
        /\ cmd_pubs[Len(cmd_pubs)].d["lightness"] = CoordData.d["lightness"]
        /\ brightness(CoordData, last_known_lightness) >= last.val

\* brightness 128 has been written as 0.51 and reads back as 130
C10_Witness ==
    /\ last.op = "on_done" /\ last.val = 128
    /\ CoordData.d["lightness"] = 51
    /\ brightness(CoordData, last_known_lightness) = 130

\* a multiwhite turn-on has come to its end: its publish returned, or it
\* raised before publishing
MultiwhiteTurnOnEnds ==
    /\ kind = "multiwhite"
    /\ \/ CommandPublish /\ cmd_pc = "on_ctl"
       \/ \E b \in BrightnessInputs \cup {-1}, t \in KelvinInputs \cup {-1} :
             TurnOnBegin(b, t) /\ cmd_pc' = "idle"

InKelvinRange(t) == t >= MinKelvin /\ t <= MaxKelvin

\* C11 (as claimed): a multiwhite turn-on publishes exactly one message, on
\* the ctl topic, carrying a lightness and a temperature; the published
\* temperature and the snapshot's temperature lie in [2700, 5000].
C11_MultiwhiteTurnOn ==
    [][MultiwhiteTurnOnEnds =>
         /\ Len(cmd_pubs') = 1
         /\ cmd_pubs'[1].topic = "ctl"
         /\ DOMAIN cmd_pubs'[1].d = {"lightness", "temperature"}
         /\ InKelvinRange(cmd_pubs'[1].d["temperature"])
         /\ IsDict(CoordData')
         /\ "temperature" \in DOMAIN CoordData'.d
         /\ InKelvinRange(CoordData'.d["temperature"])]_vars

\* C12 (as claimed): a turn-off publishes exactly one power-off command, then
\* the snapshot reads off with every other field unchanged, and the deferred
\* confirmation is scheduled.
C12_TurnOff ==
    [][(CommandPublish /\ cmd_pc = "off_power") =>
         /\ cmd_pubs' = <<Msg("power", "false", EmptyDict)>>
         /\ IsDict(CoordData')
         /\ DOMAIN CoordData'.d = DOMAIN CoordData.d \cup {"onoff"}
         /\ CoordData'.d["onoff"] = 0
         /\ \A f \in DOMAIN CoordData.d \ {"onoff"} :
                CoordData'.d[f] = CoordData.d[f]
         /\ fmu_sleep1' = fmu_sleep1 + 1]_vars

\* C13: the deferred confirmation escalates the priority after its first
\* sleep without publishing; under normal (independent-interval) polling it
\* then sleeps the settle delay and publishes exactly one status request, on
\* the topic the entity's poll uses; under rotational polling it ends after
\* the escalation and never publishes a request.
C13_DeferredConfirmation ==
    /\ [][FmuEscalate =>
            /\ fmu_pubs' = <<>>
            /\ priority'[Dev] = PollPriorityHIGH
            /\ fmu_sleep1' = fmu_sleep1 - 1
            /\ fmu_sleep2' = IF polling_mode = POLLING_MODE_ROTATIONAL
                             THEN fmu_sleep2 ELSE fmu_sleep2 + 1]_vars
    /\ [][(\E ok \in BOOLEAN : FmuRequest(ok)) =>
            /\ polling_mode = POLLING_MODE_NORMAL
            /\ fmu_sleep2' = fmu_sleep2 - 1 /\ fmu_sleep1' = fmu_sleep1
            /\ priority' = priority
            /\ last'.ok =>
                 fmu_pubs' = <<Msg(IF kind = "multiwhite" THEN "ctlGet"
                                   ELSE "lightnessGet", "-", EmptyDict)>>]_vars
    /\ [](polling_mode = POLLING_MODE_ROTATIONAL =>
            fmu_sleep2 = 0 /\ fmu_pubs = <<>>)

\* under normal polling a deferred confirmation has published its request
C13_Witness ==
    /\ last.op = "fmu_request" /\ last.ok
    /\ polling_mode = POLLING_MODE_NORMAL
    /\ Len(fmu_pubs) = 1
    /\ priority[Dev] = PollPriorityHIGH

\* C14 (as claimed): whatever the discovery messages and however the creation
\* tasks interleave, no device address gets more than one entity and
\* reconciler.
C14_OneReconcilerPerDevice ==
    \A a \in 1..MaxEntities : made[a] <= 1

\* C15: the rotational loop never ends because of what it finds or of an
\* error: with no entity to poll, after the refresh of an entity raised, and
\* after an exception escaped the cycle body, the loop sleeps and comes back
\* to the top of "while True", where the next iteration starts.
C15_LoopNeverTerminates ==
    /\ [](loop_pc \in {"top", "empty_sleep", "high_poll", "high_sleep",
                       "normal_poll", "normal_sleep", "error_sleep"})
    /\ [](loop_pc = "top" /\ iteration < MaxIterations => ENABLED Partition)
    /\ [][(\E ok \in BOOLEAN : HighPollDone(ok) \/ NormalPollDone(ok))
             => loop_pc' \in {"high_sleep", "normal_sleep"}]_vars
    /\ (loop_pc # "top") ~> (loop_pc = "top")

\* the loop is back at the top after an exception escaped the cycle body of
\* an iteration in which the refresh of an entity had raised
C15_Witness ==
    /\ loop_pc = "top"
    /\ last.op = "error_sleep_done"
    /\ \E e \in Range(coordinators) : failed_high[e] >= 1

\* C16 (as claimed): when the refresh of the NORMAL slot's entity raises, the
\* rotation moves past that entity: with the same NORMAL entities the next
\* NORMAL slot picks another one.
C16_RotationPassesFailingEntity ==
    [][(NormalPollDone(FALSE) /\ Len(normal_entities) > 1) =>
          RoundRobinPick(normal_entities, rr_index')
              # RoundRobinPick(normal_entities, rr_index)]_vars

\* C17: when the broker connection cannot be made at setup, the setup fails
\* with the connection error and leaves nothing behind: discovery is not
\* started, no session data is stored, no platform is set up, nothing is
\* subscribed.
C17_FailedSetupLeavesNothing ==
    /\ [][(\E ok \in BOOLEAN : SetupConnect(ok)) /\ ~last'.ok =>
            entry_state' = "setup_failed"]_vars
    /\ [](entry_state = "setup_failed" =>
            /\ ~discovery_started /\ ~session_stored /\ ~forwarded
            /\ subs = {} /\ loop_tasks = {} /\ start_listeners = {}
            /\ coordinators = <<>>)
    /\ [][entry_state = "setup_failed" =>
            UNCHANGED <<recVars, rotVars, setupVars, entry_state,
                        discovery_started, session_stored, forwarded, subs,
                        start_listeners, loop_tasks>>]_vars

\* the setup has just failed on the connection
C17_Witness ==
    /\ entry_state = "setup_failed"
    /\ last.op = "setup_raise" /\ ~last.ok

\* the rotational loop starts the refresh of an entity
PollStarts ==
    /\ Partition \/ HighSleepDone
    /\ loop_pc' \in {"high_poll", "normal_poll"}

\* C18 (as claimed): once the unload has completed, every subscription is
\* gone, no status handler is invoked and no scheduler publishes a status
\* request.
C18_QuietAfterUnload ==
    /\ [](entry_state = "unloaded" => subs = {})
    /\ [][entry_state = "unloaded" =>
            ~(\E p \in EntryStatusPayloads : OnStatusMessage(p))]_vars
    /\ [][entry_state = "unloaded" => ~(PollStarts /\ CanPublish)]_vars

\* a group turn-on has just ended after its last publish
GroupTurnOnEnds ==
    /\ GroupCommandPublish
    /\ cmd_pc \in {"g_on_power", "g_on_lightness"}
    /\ cmd_pc' = "idle"

\* C19 (as claimed): every group turn-on, with or without a brightness,
\* publishes power-on and then set-lightness on the group's topics.
C19_AlwaysTwoStep ==
    [][GroupTurnOnEnds =>
          /\ Len(cmd_pubs') = 2
          /\ cmd_pubs'[1] = Msg("groupPower", "true", EmptyDict)
          /\ cmd_pubs'[2].topic = "groupLightness"]_vars

\* C19 (amended): a group turn-on with a brightness publishes power-on and
\* then set-lightness with the fraction rounded up; a group turn-on without
\* a brightness publishes the power-on alone; both on the group's topics.
C19_GroupTurnOn ==
    [][GroupTurnOnEnds =>
          /\ cmd_pubs'[1] = Msg("groupPower", "true", EmptyDict)
          /\ IF cmd_brightness # -1
             THEN /\ Len(cmd_pubs') = 2
                  /\ cmd_pubs'[2] =
                        Msg("groupLightness", "-",
                            [lightness |-> CeilLightness(cmd_brightness)])
             ELSE Len(cmd_pubs') = 1]_vars

\* a group turn-on without a brightness has completed with one publish
C19_Witness ==
    /\ kind = "group"
    /\ last.op = "on_done" /\ last.val = -1
    /\ Len(cmd_pubs) = 1

\* C20 (as claimed): after construction the snapshot is never replaced
\* wholesale: it stays a field mapping, and every field it holds before an
\* operation it still holds after it.
C20_SnapshotNeverReplaced ==
    /\ [](IsDict(status_data))
    /\ [][DOMAIN status_data.d \subseteq DOMAIN status_data'.d]_vars

\* the snapshot holds a field that bears the on/off state
Bears(v, key) == IsDict(v) /\ FieldOf(v.d, key) # Null

\* the first on/off-bearing field of the snapshot decides
Decides(v, key) ==
    /\ Bears(v, key)
    /\ \A i, j \in 1..Len(OnOffFields) :
          (OnOffFields[j] = key /\ i < j) => ~Bears(v, OnOffFields[i])

\* C21: the on/off accessor never raises; it answers unknown when there is
\* no data or no on/off-bearing field, true for the encodings 1, true, "on",
\* "ON" and false for 0, false, "off"; the lower-case onoff field goes
\* before the other on/off-bearing fields.
C21_IsOnNormalizes ==
    last.op = "is_on" =>
        /\ last.ok
        /\ last.val \in {"None", "True", "False"}
        /\ (~Truthy(status) \/ \A i \in 1..Len(OnOffFields) :
                                    ~Bears(status, OnOffFields[i]))
              => last.val = "None"
        /\ \A i \in 1..Len(OnOffFields) :
              Decides(status, OnOffFields[i]) =>
                 LET x == status.d[OnOffFields[i]] IN
                 /\ x \in {Num(1), Bool(TRUE), Text("on"), Text("ON")}
                       => last.val = "True"
                 /\ x \in {Num(0), Bool(FALSE), Text("off")}
                       => last.val = "False"
        /\ Bears(status, "onoff") =>
              last.val = IF status.d["onoff"] \in
                               {Num(1), Bool(TRUE), Text("on"), Text("ON")}
                         THEN "True" ELSE "False"

\* the accessor has answered for a snapshot whose onoff field says "ON" while
\* its onOff field says off
C21_Witness ==
    /\ last.op = "is_on"
    /\ Bears(status, "onoff") /\ status.d["onoff"] = Text("ON")
    /\ Bears(status, "onOff") /\ status.d["onOff"] = Num(0)
    /\ last.val = "True"

\* what the claim has a payload do to a directory: a list stores each entry
\* that has an address under that address, in the list's order; every other
\* entry and every other payload changes nothing
RECURSIVE Carried(_, _)
Carried(dir, items) ==
    IF items = <<>> THEN dir
    ELSE Carried(IF Head(items).t = "obj" /\ Head(items).addr # 0
                 THEN StoreLight(dir, Head(items)) ELSE dir,
                 Tail(items))

\* C22 (as claimed): after every discovery message the directory holds the
\* addresses it held and those the message carried, each address with the
\* descriptor of the latest entry that carried it; entries without an
\* address and payloads that are not lists change nothing.
C22_DirectoryMonotone ==
    [][\A p \in LightsPayloads : OnLightsMessage(p) =>
          /\ DOMAIN directory \subseteq DOMAIN directory'
          /\ directory' = Carried(directory, p.items)]_vars

\* C23 (as claimed): the two policies are never mixed: under rotational
\* polling no reconciler, of a device or of a group, is polled by a timer of
\* its own, and under independent polling no rotational loop is started.
C23_PoliciesNeverMixed ==
    /\ [][polling_mode = POLLING_MODE_ROTATIONAL => ~TimerPoll]_vars
    /\ [](polling_mode = POLLING_MODE_NORMAL =>
             loop_tasks = {} /\ start_listeners = {})

\* C24 (as claimed): no rotational loop polls before the platform has
\* signalled its start, and at most one rotational loop exists.
C24_OneLoopAfterStart ==
    /\ [][~ha_started => ~(\E g \in 1..MaxLoops : LoopPoll(g))]_vars
    /\ [](Cardinality(loop_tasks) <= 1)

\* a monochrome turn-on without a brightness has just ended after its last
\* publish
MonoReplayEnds ==
    /\ CommandPublish
    /\ kind = "mono" /\ cmd_brightness = -1
    /\ cmd_pc \in {"on_power", "on_lightness"}
    /\ cmd_pc' = "idle"

\* C25 (as claimed): a monochrome turn-on without a brightness takes the
\* remembered lightness as the value to set, if there is one; it then
\* publishes power-on and set-lightness with that value and the snapshot
\* becomes on with it; without a remembered value it publishes the power-on
\* alone and leaves the snapshot's lightness as it was.
C25_ReplayRemembered ==
    /\ [][(TurnOnBegin(-1, -1) /\ kind = "mono") =>
            cmd_light' = last_known_lightness]_vars
    /\ [][MonoReplayEnds =>
            /\ IsDict(CoordData') /\ CoordData'.d["onoff"] = 1
            /\ IF cmd_light # -1
               THEN /\ cmd_pubs' =
                         <<Msg("power", "true", EmptyDict),
                           Msg("lightness", "-", [lightness |-> cmd_light])>>
                    /\ CoordData'.d["lightness"] = cmd_light
               ELSE /\ cmd_pubs' = <<Msg("power", "true", EmptyDict)>>
                    /\ IF IsDict(CoordData) /\ "lightness" \in DOMAIN CoordData.d
                       THEN CoordData'.d["lightness"] = CoordData.d["lightness"]
                       ELSE "lightness" \notin DOMAIN CoordData'.d]_vars

\* C26 (as claimed): after a group coordinator accepts a response that
\* contains a lightness, the group snapshot's onoff is 1 when lightness > 0
\* and 0 when it is 0.
C26_GroupLightnessDerivedOnOff ==
    [][\A p \in StatusPayloads :
         (OnStatusMessage(p) /\ kind = "group" /\ Accepted(kind, p)
             /\ IsObject(p) /\ "lightness" \in DOMAIN RawFields(p)) =>
            /\ IsDict(status_data')
            /\ "onoff" \in DOMAIN status_data'.d
            /\ RawFields(p)["lightness"] > 0 => status_data'.d["onoff"] = 1
            /\ RawFields(p)["lightness"] = 0 => status_data'.d["onoff"] = 0]_vars

\* C27 (as claimed): at most one device reconciler at a time awaits the
\* response to a status request issued by the rotational scheduler.
C27_OnePollAtATime == Cardinality(loops_polling) <= 1

\* the loop starts the refresh of its NORMAL round-robin slot
NormalSlotStarts == loop_pc # "normal_poll" /\ loop_pc' = "normal_poll"

\* C28 (as claimed): the entity polled through the NORMAL round-robin slot does
\* not read HIGH when its poll starts, and no NORMAL-slot poll starts while an
\* entity reads HIGH that the iteration has not polled from its HIGH list.
C28_HighNeverThroughNormalSlot ==
    [][NormalSlotStarts =>
          /\ priority[RoundRobinPick(normal_entities', rr_index)] # PollPriorityHIGH
          /\ \A e \in Range(coordinators) :
                priority[e] = PollPriorityHIGH
                    => e \in Range(high_priority_entities')]_vars

\* C29: a status message that arrives while the poll's request is unanswered
\* and after a command wrote its optimistic fields is merged like any other:
\* every field it carries reads the message's value afterwards, whatever the
\* command wrote.
C29_StaleResponseOverwrites ==
    [][\A p \in StaleStatusPayloads :
          (/\ OnStatusMessage(p)
           /\ RequestUnanswered
           /\ opt_pending # EmptyDict
           /\ IsDict(status_data))
          => /\ IsDict(CoordData')
             /\ \A k \in DOMAIN HandlerData(kind, p).d :
                   /\ k \in DOMAIN CoordData'.d
                   /\ CoordData'.d[k] = HandlerData(kind, p).d[k]]_vars

\* the request went out, then the command wrote lightness and onoff, then the
\* message put lightness back to the value the snapshot had when the poll began
C29_Witness ==
    /\ last.op = "status" /\ last.ok
    /\ poll_pc = "wait" /\ status_received
    /\ "lightness" \in DOMAIN opt_pending
    /\ IsDict(req_snapshot) /\ "lightness" \in DOMAIN req_snapshot.d
    /\ last.p.d["lightness"] = req_snapshot.d["lightness"]
    /\ IsDict(CoordData)
    /\ CoordData.d["lightness"] = req_snapshot.d["lightness"]
    /\ CoordData.d["lightness"] # opt_pending["lightness"]
    /\ CoordData.d["onoff"] # opt_pending["onoff"]

\* C30 (as claimed): a command whose publish meets a transport failure does not
\* raise to its caller; it ends normally and leaves the snapshot as it was.
C30_PublishFailureNotRaised ==
    [][CommandPublishFails => (last'.ok /\ CoordData' = CoordData)]_vars

\* C31 (as claimed): every discovery message whose handler ran to its end and
\* added or replaced a descriptor of a light, a group or a scene fires the
\* change notification.
C31_EveryDiscoveryFires ==
    [][(/\ last'.ok
        /\ directory' # directory \/ groups' # groups \/ scenes' # scenes)
          => last'.fired]_vars

\* the topics of a sequence of published messages
TopicsOf(pubs) == [i \in 1..Len(pubs) |-> pubs[i].topic]

\* C32: a poll resets the flag (no response seen yet) before it publishes
\* anything; once it waits it has published its requests exactly once, each
\* with an empty object: a monochrome device one lightnessGet, a multiwhite
\* device one ctlGet, a group a powerGet followed by a lightnessGet; and it
\* publishes nothing more while it waits or when it returns.
C32_RequestsPublishedOnce ==
    /\ [][PollBegin => (~status_received' /\ poll_pubs' = <<>>)]_vars
    /\ [](poll_pc = "publish" =>
             Len(poll_pubs) < (IF kind = "group" THEN 2 ELSE 1))
    /\ [](poll_pc = "wait" =>
             /\ kind = "mono" => TopicsOf(poll_pubs) = <<"lightnessGet">>
             /\ kind = "multiwhite" => TopicsOf(poll_pubs) = <<"ctlGet">>
             /\ kind = "group" =>
                    TopicsOf(poll_pubs) = <<"powerGet", "lightnessGet">>
             /\ \A i \in 1..Len(poll_pubs) : poll_pubs[i].d = EmptyDict)
    /\ [][poll_pc = "wait" => poll_pubs' = poll_pubs]_vars

\* a group poll waits for its response with both requests published
C32_Witness ==
    /\ kind = "group"
    /\ poll_pc = "wait" /\ ~status_received
    /\ Len(poll_pubs) = 2

\* C33 (as claimed): a poll that has published its request returns; its wait
\* loop takes at most one turn more than the timeout holds increments and no
\* turn once a response was accepted; it returns the merged snapshot when a
\* response was accepted and otherwise the snapshot as it was when the
\* request was issued.
C33_PollTerminates ==
    /\ (poll_pc = "wait") ~> (poll_pc = "idle")
    /\ [](elapsed <= TimeoutTicks + 1)
    /\ [][(poll_pc = "wait" /\ status_received) => ~PollTick]_vars
    /\ [][PollReturn =>
             CoordData' = IF status_received THEN status_data
                          ELSE req_snapshot]_vars

\* C34 (as claimed): a poll that times out does not take back what a command
\* wrote: every field that coordinator.data holds when the poll returns
\* without a response, the command's optimistic values among them, reads the
\* same afterwards.
C34_TimeoutKeepsOptimistic ==
    [][(PollReturn /\ ~status_received /\ IsDict(CoordData)) =>
          /\ IsDict(CoordData')
          /\ \A k \in DOMAIN CoordData.d :
                /\ k \in DOMAIN CoordData'.d
                /\ CoordData'.d[k] = CoordData.d[k]]_vars

\* C35 (as claimed): no escalation is lost. After set_high_priority of an
\* entity the loop starts a HIGH poll of that entity (or, where the iterations
\* that the model follows end first, the entity still reads HIGH, so that its
\* poll is still due).
C35_NoEscalationLost ==
    \A e \in 1..MaxEntities :
        (last.op = "escalate" /\ last.val = e) ~>
            \/ last.op = "high_poll" /\ last.val = e
            \/ iteration = MaxIterations /\ priority[e] = PollPriorityHIGH

\* C36 (as claimed): under rotational polling, an entry that is set up and has
\* a device entity gets polled by its loop (unless it is unloaded first),
\* whether its setup ended before or after the platform's startup event.
C36_PollingBegins ==
    (/\ entry_state = "loaded"
     /\ polling_mode = POLLING_MODE_ROTATIONAL
     /\ coordinators # <<>>)
        ~> (setup_no \in loops_polling \/ entry_state # "loaded")


\* C37: no turn-on leaves a contradictory snapshot: after a turn-on of a
\* device entity, with any requested brightness in 0..255 or with none, the
\* snapshot never holds onoff = 1 together with lightness = 0, and no
\* turn-on publishes a lightness of 0.
PublishesZeroLightness(pubs) ==
    \E i \in 1..Len(pubs) :
        "lightness" \in DOMAIN pubs[i].d /\ pubs[i].d["lightness"] = 0

C37_NoContradictorySnapshot ==
    /\ ~PublishesZeroLightness(cmd_pubs)
    /\ IsDict(CoordData) /\ "onoff" \in DOMAIN CoordData.d
       /\ "lightness" \in DOMAIN CoordData.d
          => ~(CoordData.d["onoff"] = 1 /\ CoordData.d["lightness"] = 0)


\* C38: NORMAL entities are not starved by HIGH traffic: an iteration with a
\* non-empty NORMAL list polls one NORMAL entity once its HIGH entities are
\* done, and while the NORMAL list stays the same every entity of it has its
\* turn, one per iteration, whatever is escalated in between.  An iteration
\* cut short by an exception of the cycle body and a change of the NORMAL
\* list end the obligation.
NormalListChanges ==
    loop_pc = "top" /\ NormalEntities(coordinators, priority) # normal_entities

NormalTurnDue(e) ==
    /\ loop_pc \in {"high_poll", "high_sleep", "normal_poll"}
    /\ e \in Range(normal_entities)
    /\ iteration + Len(normal_entities) - 1 <= MaxIterations

NormalTurn(e) ==
    loop_pc = "normal_poll" /\ RoundRobinPick(normal_entities, rr_index) = e

C38_NormalNotStarved ==
    \A e \in 1..MaxEntities :
        NormalTurnDue(e)
            ~> (NormalTurn(e) \/ NormalListChanges \/ loop_pc = "error_sleep")


\* C39: a command whose publish fails has no local effect: no step of a
\* turn-on or turn-off up to and including the publish that raises changes
\* the snapshot, escalates the priority or schedules the deferred
\* confirmation; only the step after the last publish has returned does.
BeforeLastPublishReturned ==
    \/ \E b \in BrightnessInputs \cup {-1}, t \in KelvinInputs \cup {-1} :
            TurnOnBegin(b, t)
    \/ TurnOffBegin
    \/ CommandPublish /\ cmd_pc' = "on_lightness"
    \/ CommandPublishFails

C39_FailedPublishNoEffect ==
    [][BeforeLastPublishReturned =>
          /\ CoordData' = CoordData
          /\ priority' = priority
          /\ fmu_sleep1' = fmu_sleep1 /\ fmu_sleep2' = fmu_sleep2]_vars

\* the lightness publish of a monochrome turn-on has raised after its power
\* publish had returned, with a snapshot in place and nothing scheduled
C39_Witness ==
    /\ last.op = "cmd_raise" /\ last.val = 0
    /\ kind = "mono"
    /\ Len(cmd_pubs) = 1 /\ cmd_pubs[1].topic = "power"
    /\ Truthy(CoordData) /\ IsDict(CoordData)
    /\ fmu_sleep1 = 0 /\ fmu_sleep2 = 0


\* C40 (as claimed): no device address is marked as created without its
\* entity being added to the platform: an address in created_entities has
\* its entity added already, or a run that is still going holds the entity in
\* its new_entities and will add it.
C40_CreatedMeansAdded ==
    \A a \in created_entities :
        \/ a \in added_entities
        \/ \E r \in 1..MaxRuns :
              runs[r] # NoRun /\ a \in Range(runs[r].new)

====
